---- MODULE Spec2Model ----
(***************************************************************************)
(* A model of the word-game server (src/server.js): the presence map, the  *)
(* room registry, the matchmaking queue, the per-room timers and the       *)
(* settlement (handleGameOver).  Every socket.on handler is one action per *)
(* run-to-completion segment: an async handler is split at its awaits, and *)
(* the suspended activations are kept in the bag procs.                    *)
(***************************************************************************)
EXTENDS Integers, Sequences, FiniteSets, TLC

\* ------------------------------------------------------------ bounds
MaxRooms == 2
SoloRooms == 1
MaxInflight == 2
MatchInflight == 3
QueueInflight == 1
MaxFinds == 2
MatchFinds == 1
MaxSettle == 2
MaxStarts == 2
MaxQuits == 2
InitLp == 50

\* ------------------------------------------------- program constants
StartTime == 120
Band == 200
RoomCap == 4
QuitPenalty == 20
Forfeit == 0 - 9999

\* ------------------------------------------------------------ values
Max(a, b) == IF a >= b THEN a ELSE b
Sockets == {"s1", "s2", "s3", "s4", "s5"}
Humans == {"A", "B", "C", "D", "E", "F", "G"}
AIPlayers == {"AI_Alpha", "AI_Beta", "AI_Gamma", "AI_Delta"}
RoomIds == 1..Max(MaxRooms, SoloRooms)
NoUser == "null"
NoName == "undefined"
NoSock == "none"
NoLp == 0 - 1

VARIABLES
    live,            \* live[s]: the connection s is open
    currentUser,     \* the closure variable currentUser of connection s
    sockUsername,    \* socket.username
    sockLp,          \* socket.lp
    onlineUsers,     \* onlineUsers[u]: a socket id, or NoSock
    accounts,        \* the usernames with a row in the Wordiers table
    lp,              \* the lp column of the table
    rooms,           \* the keys of the registry object rooms
    room,            \* the room objects, by id (also after their removal)
    nextRoom,        \* the next unused room id
    matchmakingQueue,\* the queue of sockets
    pendingStart,    \* per room: the setTimeout callbacks of beginGameSequence not yet run
    timers,          \* per room: [cur: room.interval runs, old: intervals no longer referenced]
    aiTimers,        \* per room: the synthetic players whose interval runs
    procs,           \* the suspended handler activations (a bag)
    crashed,         \* an exception escaped a handler
    settleRuns,      \* per room: how often handleGameOver passed its room check
    gameOvers,       \* per room: how often gameOver was emitted
    lpWrites,        \* per room and user: the LP writes settlement made
    quits,           \* per room and user: quitMatch events handled
    starts,          \* per room: calls of beginGameSequence
    finds,           \* per connection: findMatch events handled
    env              \* the scenario: [login: the usernames each connection uses, pw: the
                     \* password checks' results, maxRooms, inflight: the bounds in force];
                     \* in the specifications of the module-level functions: their
                     \* arguments and the values they returned

vars == <<live, currentUser, sockUsername, sockLp, onlineUsers, accounts, lp,
          rooms, room, nextRoom, matchmakingQueue, pendingStart, timers, aiTimers,
          procs, crashed, settleRuns, gameOvers, lpWrites, quits, starts, finds, env>>

\* ------------------------------------------------------------ helpers
Abs(x) == IF x < 0 THEN 0 - x ELSE x
SeqToSet(q) == {q[i] : i \in 1..Len(q)}
Includes(q, x) == \E i \in 1..Len(q) : q[i] = x
Delete(f, k) == [x \in DOMAIN f \ {k} |-> f[x]]
Put(f, k, v) == [x \in DOMAIN f \cup {k} |-> IF x = k THEN v ELSE f[x]]
Get(f, k, d) == IF k \in DOMAIN f THEN f[k] ELSE d
startsWithAI(p) == p \in AIPlayers

\* the bag of suspended activations
BagAdd(b, h) == IF h \in DOMAIN b THEN [b EXCEPT ![h] = @ + 1] ELSE Put(b, h, 1)
BagDel(b, h) == IF b[h] = 1 THEN Delete(b, h) ELSE [b EXCEPT ![h] = @ - 1]
RECURSIVE SumOver(_, _)
SumOver(f, S) == IF S = {} THEN 0
                 ELSE LET x == CHOOSE y \in S : TRUE IN f[x] + SumOver(f, S \ {x})
Inflight == SumOver(procs, DOMAIN procs)
CanSuspend == Inflight < env.inflight

Proc(op, s, pc, u, r) ==
    [op |-> op, s |-> s, pc |-> pc, u |-> u, r |-> r, n |-> 0, v |-> 0, ok |-> FALSE,
     xs |-> <<>>, asg |-> <<>>, sc |-> <<>>, on |-> {}, res |-> <<>>, lp0 |-> <<>>]

\* ------------------------------------------------------ pure functions
\* a score that grows by one point per letter after the second
getWordScoreMut(wordLength) == IF wordLength < 3 THEN 0 ELSE wordLength - 2
\* getWordScore (server.js 85-92)
getWordScore(wordLength) ==
    IF wordLength < 3 THEN 0
    ELSE IF wordLength = 3 \/ wordLength = 4 THEN 1
    ELSE IF wordLength = 5 THEN 2
    ELSE IF wordLength = 6 THEN 3
    ELSE IF wordLength = 7 THEN 5
    ELSE 11

\* the tiers with every threshold value in the upper tier
getRankDataMut(x) ==
    IF x < 50 THEN 0 ELSE IF x < 100 THEN 1 ELSE IF x < 200 THEN 2
    ELSE IF x < 300 THEN 3 ELSE IF x < 400 THEN 4 ELSE IF x < 500 THEN 5
    ELSE IF x < 600 THEN 6 ELSE IF x < 700 THEN 7 ELSE IF x < 800 THEN 8
    ELSE IF x < 900 THEN 9 ELSE IF x < 999 THEN 10 ELSE 11
\* getRankData (server.js 70-83): the index of the tier, 0 = "Novice Scribe"
getRankData(x) ==
    IF x <= 50 THEN 0 ELSE IF x <= 100 THEN 1 ELSE IF x <= 200 THEN 2
    ELSE IF x <= 300 THEN 3 ELSE IF x <= 400 THEN 4 ELSE IF x <= 500 THEN 5
    ELSE IF x <= 600 THEN 6 ELSE IF x <= 700 THEN 7 ELSE IF x <= 800 THEN 8
    ELSE IF x <= 900 THEN 9 ELSE IF x <= 999 THEN 10 ELSE 11

\* String.prototype.toUpperCase on the letters the inputs use
toUpperChar(c) ==
    CASE c = "a" -> "A" [] c = "c" -> "C" [] c = "t" -> "T" [] OTHER -> c
toUpperCase(w) == [i \in 1..Len(w) |-> toUpperChar(w[i])]

\* words.txt as loaded (server.js 46-64): allWords, and the words of the trie
Cat == <<"C", "A", "T">>
House == <<"H", "O", "U", "S", "E">>
Banana == <<"B", "A", "N", "A", "N", "A">>
Cabbage == <<"C", "A", "B", "B", "A", "G", "E">>
Alphabet == <<"A", "L", "P", "H", "A", "B", "E", "T">>
Backbone == <<"B", "A", "C", "K", "B", "O", "N", "E">>
allWords == { Cat, House, Banana, Cabbage, Alphabet, Backbone }
dictionarySearch(w) == w \in allWords

\* what the clients submit
WordInputs == { <<"c", "a", "t">>, <<"C", "A", "T">>, <<"H", "O", "U", "S", "E">>,
                <<"A", "T">>, <<"C", "A", "X">> }

\* Object.keys(room.scores).sort((a, b) => room.scores[b] - room.scores[a]):
\* a stable sort of the keys, in insertion order, by descending score
sortedPlayers(skeys, scores) ==
    LET n == Len(skeys)
        pos(i) == Cardinality({j \in 1..n :
                     \/ scores[skeys[j]] > scores[skeys[i]]
                     \/ scores[skeys[j]] = scores[skeys[i]] /\ j < i})
    IN [k \in 1..n |-> skeys[CHOOSE i \in 1..n : pos(i) = k - 1]]

\* variants of the table: second place pays in every room size; a tied last
\* group is ranked by its place
assignedLpPlaceMut(pCount, place, numTied, isLast) ==
    IF isLast THEN 0 - 5
    ELSE IF place = 1 THEN (IF numTied = 1 THEN 20 ELSE IF numTied = 2 THEN 10
                            ELSE IF numTied = 3 THEN 6 ELSE 0)
    ELSE IF place = 2 THEN (IF numTied = 1 THEN 5 ELSE IF numTied = 2 THEN 2
                            ELSE IF numTied = 3 THEN 1 ELSE 0)
    ELSE 0
assignedLpTieMut(pCount, place, numTied, isLast) ==
    IF isLast /\ numTied = 1 THEN 0 - 5
    ELSE IF place = 1 THEN (IF numTied = 1 THEN 20 ELSE IF numTied = 2 THEN 10
                            ELSE IF numTied = 3 THEN 6 ELSE 0)
    ELSE IF place = 2 THEN
        (IF pCount = 4 THEN (IF numTied = 1 THEN 5 ELSE IF numTied = 2 THEN 2
                             ELSE IF numTied = 3 THEN 1 ELSE 0)
         ELSE 0)
    ELSE 0

\* the placement table of handleGameOver (server.js 599-617)
assignedLp(pCount, place, numTied, isLast) ==
    IF isLast THEN 0 - 5
    ELSE IF place = 1 THEN (IF numTied = 1 THEN 20 ELSE IF numTied = 2 THEN 10
                            ELSE IF numTied = 3 THEN 6 ELSE 0)
    ELSE IF place = 2 THEN
        (IF pCount = 4 THEN (IF numTied = 1 THEN 5 ELSE IF numTied = 2 THEN 2
                             ELSE IF numTied = 3 THEN 1 ELSE 0)
         ELSE 0)
    ELSE 0

\* variant: only the sentinel counts
penalisedMut(p, scores, online) == scores[p] = Forfeit
\* a participant settlement treats as gone: no presence entry, or the sentinel
penalised(p, scores, online) == p \notin online \/ scores[p] = Forfeit

\* variant: a total tie needs three valid players
isTotalTieMut(scores, online) ==
    LET active == {p \in DOMAIN scores : ~startsWithAI(p)}
        uniqueScores == {scores[p] : p \in active}
        validPlayersCount == Cardinality({p \in active : ~penalised(p, scores, online)})
    IN Cardinality(uniqueScores) = 1 /\ validPlayersCount > 2
\* isTotalTie (server.js 579-581)
isTotalTie(scores, online) ==
    LET active == {p \in DOMAIN scores : ~startsWithAI(p)}
        uniqueScores == {scores[p] : p \in active}
        validPlayersCount == Cardinality({p \in active : ~penalised(p, scores, online)})
    IN Cardinality(uniqueScores) = 1 /\ validPlayersCount > 1

\* lpAssignments (server.js 583-631), for the human keys of room.scores
lpAssignments(scores, online) ==
    LET active == {p \in DOMAIN scores : ~startsWithAI(p)}
        pCount == Cardinality(active)
    IN [p \in active |->
          IF isTotalTie(scores, online)
          THEN (IF penalised(p, scores, online) THEN 0 - 20 ELSE 0)
          ELSE LET placesTaken == Cardinality({q \in active : scores[q] > scores[p]})
                   numTied == Cardinality({q \in active : scores[q] = scores[p]})
                   place == placesTaken + 1
                   isLast == (placesTaken + numTied = pCount)
               IN IF penalised(p, scores, online) THEN 0 - 20
                  ELSE assignedLp(pCount, place, numTied, isLast)]

\* the AI-room delta without the test of isConnected and hasForfeited
lpChangeOfMut(rm, p, asg, online) ==
    IF rm.isAI
    THEN (IF rm.scores[p] >= 10 THEN rm.scores[p] \div 10 ELSE 0)
    ELSE asg[p]

\* lpChange of one human in the write-back loop (server.js 639-651)
lpChangeOf(rm, p, asg, online) ==
    IF rm.isAI
    THEN (IF p \notin online \/ rm.scores[p] = Forfeit THEN 0
          ELSE IF rm.scores[p] >= 10 THEN rm.scores[p] \div 10 ELSE 0)
    ELSE asg[p]

Online == {u \in Humans : onlineUsers[u] # NoSock}

\* ------------------------------------------------------------ presence
Presence(ou, u) == Get(ou, u, NoSock)
LiveSockets == {s \in Sockets : live[s]}

\* register (server.js 152-167): the check, then the select
RegisterBegin(s, u) ==
    /\ live[s]
    /\ IF Presence(onlineUsers, u) # NoSock
       THEN UNCHANGED procs
       ELSE /\ CanSuspend
            /\ procs' = BagAdd(procs, Proc("register", s, "select", u, 0))
    /\ UNCHANGED <<live, currentUser, sockUsername, sockLp, onlineUsers, accounts, lp,
                   rooms, room, nextRoom, matchmakingQueue, pendingStart, timers, aiTimers,
                   crashed, settleRuns, gameOvers, lpWrites, quits, starts, finds, env>>

\* the select returns: an existing row ends the handler, else the insert is issued
RegisterSelect(h) ==
    /\ h \in DOMAIN procs /\ h.op = "register" /\ h.pc = "select"
    /\ procs' = IF h.u \in accounts THEN BagDel(procs, h)
                ELSE BagAdd(BagDel(procs, h), [h EXCEPT !.pc = "insert"])
    /\ UNCHANGED <<live, currentUser, sockUsername, sockLp, onlineUsers, accounts, lp,
                   rooms, room, nextRoom, matchmakingQueue, pendingStart, timers, aiTimers,
                   crashed, settleRuns, gameOvers, lpWrites, quits, starts, finds, env>>

\* the insert returns (username is the table's unique key): on success the
\* connection is authenticated
RegisterInsert(h) ==
    /\ h \in DOMAIN procs /\ h.op = "register" /\ h.pc = "insert"
    /\ procs' = BagDel(procs, h)
    /\ IF h.u \in accounts
       THEN UNCHANGED <<currentUser, onlineUsers, accounts, lp>>
       ELSE /\ accounts' = accounts \cup {h.u}
            /\ lp' = [lp EXCEPT ![h.u] = 0]
            /\ currentUser' = [currentUser EXCEPT ![h.s] = h.u]
            /\ onlineUsers' = [onlineUsers EXCEPT ![h.u] = h.s]
    /\ UNCHANGED <<live, sockUsername, sockLp, rooms, room, nextRoom, matchmakingQueue,
                   pendingStart, timers, aiTimers, crashed, settleRuns, gameOvers, lpWrites,
                   quits, starts, finds, env>>

\* login (server.js 169-184): the check, then the select
LoginBegin(s, u, ok) ==
    /\ live[s]
    /\ IF Presence(onlineUsers, u) # NoSock
       THEN UNCHANGED procs
       ELSE /\ CanSuspend
            /\ procs' = BagAdd(procs, [Proc("login", s, "select", u, 0) EXCEPT !.ok = ok])
    /\ UNCHANGED <<live, currentUser, sockUsername, sockLp, onlineUsers, accounts, lp,
                   rooms, room, nextRoom, matchmakingQueue, pendingStart, timers, aiTimers,
                   crashed, settleRuns, gameOvers, lpWrites, quits, starts, finds, env>>

loginSetsUser(h) == h.u \in accounts /\ h.ok

LoginResume(h) ==
    /\ h \in DOMAIN procs /\ h.op = "login"
    /\ procs' = BagDel(procs, h)
    /\ IF loginSetsUser(h)
       THEN /\ currentUser' = [currentUser EXCEPT ![h.s] = h.u]
            /\ onlineUsers' = [onlineUsers EXCEPT ![h.u] = h.s]
       ELSE UNCHANGED <<currentUser, onlineUsers>>
    /\ UNCHANGED <<live, sockUsername, sockLp, accounts, lp, rooms, room, nextRoom,
                   matchmakingQueue, pendingStart, timers, aiTimers, crashed, settleRuns,
                   gameOvers, lpWrites, quits, starts, finds, env>>

\* ------------------------------------------------- handlePlayerLeave
\* a push without the test
enqueueMut(q, x) == Append(q, x)
\* if (!matchmakingQueue.find(s => s.id === x.id)) matchmakingQueue.push(x)
\* (server.js 300-301 and 382-383)
enqueue(q, x) == IF Includes(q, x) THEN q ELSE Append(q, x)

\* the latest-joined participant
promotedMut(left) == left.players[Len(left.players)]
\* room.host = room.players[0] (server.js 398)
promoted(left) == left.players[1]

\* handlePlayerLeave (server.js 355-403) on the world w = [room, rooms, q];
\* u is sock.username and ou the presence map at the call
handlePlayerLeave(w, u, ou, r) ==
    IF r \notin w.rooms \/ w.room[r].status # "waiting" THEN w
    ELSE
    LET rm == w.room[r]
        keep(p) == p # u
        left == [rm EXCEPT !.players = SelectSeq(rm.players, keep),
                           !.readyStates = IF rm.isRankedWaiting THEN Delete(@, u) ELSE @,
                           !.scores = Delete(@, u),
                           !.skeys = SelectSeq(rm.skeys, keep),
                           !.words = Delete(@, u)]
        lastSocketId == Presence(ou, left.players[1])
    IN IF Len(left.players) = 0
       THEN [w EXCEPT !.room[r] = left, !.rooms = @ \ {r}]
       ELSE IF rm.isRankedWaiting
       THEN IF Len(left.players) = 1
            THEN [w EXCEPT !.room[r] = left, !.rooms = @ \ {r},
                           !.q = IF lastSocketId # NoSock /\ live[lastSocketId]
                                 THEN enqueue(@, lastSocketId) ELSE @]
            ELSE [w EXCEPT !.room[r] = left]
       ELSE [w EXCEPT !.room[r] = IF rm.host = u
                                  THEN [left EXCEPT !.host = promoted(left)]
                                  ELSE left]

World == [room |-> room, rooms |-> rooms, q |-> matchmakingQueue]

\* for (const roomId in rooms) of logout and disconnect (server.js 225-229,
\* 715-719): the waiting rooms that list cu, in key order
RECURSIVE leaveWaiting(_, _, _, _, _)
leaveWaiting(w, cu, u, ou, ids) ==
    IF ids = {} THEN w
    ELSE LET r == CHOOSE x \in ids : \A y \in ids : x <= y
             w1 == IF r \in w.rooms /\ Includes(w.room[r].players, cu)
                      /\ w.room[r].status = "waiting"
                   THEN handlePlayerLeave(w, u, ou, r) ELSE w
         IN leaveWaiting(w1, cu, u, ou, ids \ {r})

\* logout (server.js 223-234)
Logout(s) ==
    /\ live[s]
    /\ IF currentUser[s] # NoUser
       THEN LET w == leaveWaiting(World, currentUser[s], sockUsername[s], onlineUsers, rooms)
            IN /\ room' = w.room /\ rooms' = w.rooms /\ matchmakingQueue' = w.q
               /\ onlineUsers' = [onlineUsers EXCEPT ![currentUser[s]] = NoSock]
       ELSE UNCHANGED <<room, rooms, matchmakingQueue, onlineUsers>>
    /\ currentUser' = [currentUser EXCEPT ![s] = NoUser]
    /\ UNCHANGED <<live, sockUsername, sockLp, accounts, lp, nextRoom, pendingStart,
                   timers, aiTimers, procs, crashed, settleRuns, gameOvers, lpWrites, quits,
                   starts, finds, env>>

\* disconnect (server.js 713-725)
Disconnect(s) ==
    /\ live[s]
    /\ live' = [live EXCEPT ![s] = FALSE]
    /\ LET w == IF currentUser[s] # NoUser
                THEN leaveWaiting(World, currentUser[s], sockUsername[s], onlineUsers, rooms)
                ELSE World
           gone(x) == x # s
       IN /\ room' = w.room /\ rooms' = w.rooms
          /\ matchmakingQueue' = SelectSeq(w.q, gone)
    /\ onlineUsers' = IF currentUser[s] # NoUser
                      THEN [onlineUsers EXCEPT ![currentUser[s]] = NoSock]
                      ELSE onlineUsers
    /\ UNCHANGED <<currentUser, sockUsername, sockLp, accounts, lp, nextRoom,
                   pendingStart, timers, aiTimers, procs, crashed, settleRuns, gameOvers,
                   lpWrites, quits, starts, finds, env>>

\* leaveWaitingRoom (server.js 405-407)
LeaveWaitingRoom(s, r) ==
    /\ live[s]
    /\ LET w == handlePlayerLeave(World, sockUsername[s], onlineUsers, r)
       IN room' = w.room /\ rooms' = w.rooms /\ matchmakingQueue' = w.q
    /\ UNCHANGED <<live, currentUser, sockUsername, sockLp, onlineUsers, accounts, lp,
                   nextRoom, pendingStart, timers, aiTimers, procs, crashed, settleRuns,
                   gameOvers, lpWrites, quits, starts, finds, env>>

\* reconnectUser (server.js 186-221): the check, then the select
ReconnectBegin(s, u, ok) ==
    /\ live[s]
    /\ IF Presence(onlineUsers, u) # NoSock /\ Presence(onlineUsers, u) # s
       THEN UNCHANGED procs
       ELSE /\ CanSuspend
            /\ procs' = BagAdd(procs, [Proc("reconnect", s, "select", u, 0) EXCEPT !.ok = ok])
    /\ UNCHANGED <<live, currentUser, sockUsername, sockLp, onlineUsers, accounts, lp,
                   rooms, room, nextRoom, matchmakingQueue, pendingStart, timers, aiTimers,
                   crashed, settleRuns, gameOvers, lpWrites, quits, starts, finds, env>>

\* the loop of reconnectUser over the registry (server.js 197-207): it stops at
\* the first playing room that lists the user and leaves the others
RECURSIVE reconnectLoop(_, _, _, _)
reconnectLoop(w, cu, ou, ids) ==
    IF ids = {} THEN w
    ELSE LET r == CHOOSE x \in ids : \A y \in ids : x <= y
         IN IF r \in w.rooms /\ Includes(w.room[r].players, cu)
            THEN IF w.room[r].status = "playing" THEN w
                 ELSE reconnectLoop(handlePlayerLeave(w, cu, ou, r), cu, ou, ids \ {r})
            ELSE reconnectLoop(w, cu, ou, ids \ {r})

ReconnectResume(h) ==
    /\ h \in DOMAIN procs /\ h.op = "reconnect"
    /\ procs' = BagDel(procs, h)
    /\ IF h.u \in accounts /\ h.ok
       THEN LET ou == [onlineUsers EXCEPT ![h.u] = h.s]
                w == reconnectLoop(World, h.u, ou, rooms)
            IN /\ currentUser' = [currentUser EXCEPT ![h.s] = h.u]
               /\ onlineUsers' = ou
               /\ sockUsername' = [sockUsername EXCEPT ![h.s] = h.u]
               /\ room' = w.room /\ rooms' = w.rooms /\ matchmakingQueue' = w.q
       ELSE UNCHANGED <<currentUser, onlineUsers, sockUsername, room, rooms,
                        matchmakingQueue>>
    /\ UNCHANGED <<live, sockLp, accounts, lp, nextRoom, pendingStart, timers, aiTimers, crashed,
                   settleRuns, gameOvers, lpWrites, quits, starts, finds, env>>

\* ------------------------------------------------------------- rooms
NoTimer == [cur |-> FALSE, old |-> 0]

newRoom(players, isCustom, isAI, isRankedWaiting, host, password, baseLp) ==
    [players |-> players, skeys |-> players,
     scores |-> [p \in SeqToSet(players) |-> 0],
     words |-> [p \in SeqToSet(players) |-> <<>>],
     time |-> StartTime, status |-> "waiting",
     isCustom |-> isCustom, isAI |-> isAI, isRankedWaiting |-> isRankedWaiting,
     host |-> host, password |-> password,
     readyStates |-> <<>>, baseLp |-> baseLp]

\* room.scores[k] = v: a new key goes to the end of the key order
setScore(rm, k, v) ==
    [rm EXCEPT !.scores = Put(@, k, v),
               !.skeys = IF k \in DOMAIN rm.scores THEN @ ELSE Append(@, k)]

\* createRoom (server.js 426-441)
CreateRoom(s, password) ==
    /\ live[s] /\ currentUser[s] # NoUser
    /\ nextRoom <= env.maxRooms
    /\ sockUsername' = [sockUsername EXCEPT ![s] = currentUser[s]]
    /\ room' = Put(room, nextRoom,
                   newRoom(<<currentUser[s]>>, TRUE, FALSE, FALSE, currentUser[s],
                           password, NoLp))
    /\ rooms' = rooms \cup {nextRoom}
    /\ nextRoom' = nextRoom + 1
    /\ UNCHANGED <<live, currentUser, sockLp, onlineUsers, accounts, lp,
                   matchmakingQueue, pendingStart, timers, aiTimers, procs, crashed, settleRuns,
                   gameOvers, lpWrites, quits, starts, finds, env>>

joinRoomFull(rm) == Len(rm.players) >= RoomCap

\* joinRoom (server.js 443-459)
JoinRoom(s, r, password) ==
    /\ live[s]
    /\ IF currentUser[s] = NoUser \/ r \notin rooms \/ joinRoomFull(room[r])
       THEN UNCHANGED <<sockUsername, room>>
       ELSE IF room[r].password # "null" /\ room[r].password # password
       THEN UNCHANGED <<sockUsername, room>>
       ELSE /\ sockUsername' = [sockUsername EXCEPT ![s] = currentUser[s]]
            /\ room' = [room EXCEPT ![r] =
                  [setScore(@, currentUser[s], 0) EXCEPT
                      !.players = Append(@, currentUser[s]),
                      !.words = Put(@, currentUser[s], <<>>)]]
    /\ UNCHANGED <<live, currentUser, sockLp, onlineUsers, accounts, lp, rooms,
                   nextRoom, matchmakingQueue, pendingStart, timers, aiTimers, procs, crashed,
                   settleRuns, gameOvers, lpWrites, quits, starts, finds, env>>

\* beginGameSequence (server.js 250-265): the room object after the call; the
\* setTimeout it arms is counted in pendingStart
beginGameSequence(rm) == [rm EXCEPT !.isRankedWaiting = FALSE, !.status = "playing"]

\* a start by any sender
startAllowedMut(s, r) == r \in rooms /\ Len(room[r].players) >= 2
\* the guards of startCustomGame (server.js 462-463)
startAllowed(s, r) ==
    r \in rooms /\ room[r].host = currentUser[s] /\ Len(room[r].players) >= 2

\* startCustomGame (server.js 461-469)
StartCustomGame(s, r) ==
    /\ live[s]
    /\ IF startAllowed(s, r)
       THEN /\ starts[r] < MaxStarts
            /\ room' = [room EXCEPT ![r] = beginGameSequence(@)]
            /\ pendingStart' = [pendingStart EXCEPT ![r] = @ + 1]
            /\ starts' = [starts EXCEPT ![r] = @ + 1]
       ELSE UNCHANGED <<room, pendingStart, starts>>
    /\ UNCHANGED <<live, currentUser, sockUsername, sockLp, onlineUsers, accounts, lp,
                   rooms, nextRoom, matchmakingQueue, timers, aiTimers, procs, crashed,
                   settleRuns, gameOvers, lpWrites, quits, finds, env>>

\* startGameTimer (server.js 546-558): room.interval is overwritten, an interval
\* already running keeps running unreferenced
startGameTimer(tm) == [cur |-> TRUE, old |-> IF tm.cur THEN tm.old + 1 ELSE tm.old]

\* startAILogic (server.js 491-509): one interval per synthetic player
startAILogic(rm, running) ==
    IF rm.isAI THEN running \cup {p \in SeqToSet(rm.players) : startsWithAI(p)}
    ELSE running

\* the setTimeout callback of beginGameSequence (server.js 258-264)
StartTimeout(r) ==
    /\ pendingStart[r] > 0
    /\ pendingStart' = [pendingStart EXCEPT ![r] = @ - 1]
    /\ IF r \in rooms
       THEN /\ timers' = [timers EXCEPT ![r] = startGameTimer(@)]
            /\ aiTimers' = [aiTimers EXCEPT ![r] = startAILogic(room[r], @)]
       ELSE UNCHANGED <<timers, aiTimers>>
    /\ UNCHANGED <<live, currentUser, sockUsername, sockLp, onlineUsers, accounts, lp,
                   rooms, room, nextRoom, matchmakingQueue, procs, crashed, settleRuns,
                   gameOvers, lpWrites, quits, starts, finds, env>>

\* one run of the interval of synthetic player ai (server.js 497-506), word the
\* entry of allWords it draws
AITick(r, ai, word) ==
    /\ ai \in aiTimers[r]
    /\ IF r \notin rooms
       THEN aiTimers' = [aiTimers EXCEPT ![r] = @ \ {ai}] /\ UNCHANGED room
       ELSE /\ UNCHANGED aiTimers
            /\ room' = IF Len(word) >= 3 /\ Len(word) <= 5
                          /\ ~Includes(room[r].words[ai], word)
                       THEN [room EXCEPT ![r].scores[ai] = @ + getWordScore(Len(word)),
                                         ![r].words[ai] = Append(@, word)]
                       ELSE room
    /\ UNCHANGED <<live, currentUser, sockUsername, sockLp, onlineUsers, accounts, lp,
                   rooms, nextRoom, matchmakingQueue, pendingStart, timers, procs,
                   crashed, settleRuns, gameOvers, lpWrites, quits, starts, finds, env>>

\* --------------------------------------------------------- settlement
isHuman(p) == ~startsWithAI(p)
dbLp(u) == IF u \in accounts THEN lp[u] ELSE 0

\* the value without the floor of zero
newLpMut(cur, lpChange) == cur + lpChange
\* newLp = Math.max(0, (userData ? userData.lp : 0) + lpChange) (server.js
\* 538 and 654)
newLp(cur, lpChange) == Max(0, cur + lpChange)

\* the part of one loop pass of handleGameOver before its select (server.js
\* 639-653): lpChange and hasForfeited of the player at the head of h.xs
loopLocals(h, rm, online) ==
    [h EXCEPT !.pc = "read",
              !.n = lpChangeOf(rm, Head(h.xs), h.asg, online),
              !.ok = (rm.scores[Head(h.xs)] = Forfeit)]

\* handleGameOver up to its first await (server.js 560-653)
gameOverStart(r, rm, online) ==
    LET sorted == sortedPlayers(rm.skeys, rm.scores)
        h == [Proc("gameOver", NoSock, "read", NoUser, r) EXCEPT
                 !.xs = SelectSeq(sorted, isHuman),
                 !.asg = lpAssignments(rm.scores, online),
                 !.sc = rm.scores,
                 !.on = online,
                 !.lp0 = lp]
    IN loopLocals(h, rm, online)

\* the AI intervals are left running
clearAIIntervalsMut(rm, running) == running
\* if (room.isAI) room.aiIntervals.forEach(clearInterval) (server.js 564)
clearAIIntervals(rm, running) == IF rm.isAI THEN {} ELSE running

\* clearInterval(room.interval) (server.js 554), k the interval that ticked
clearsInterval(tm, k) == [tm EXCEPT !.cur = FALSE]

\* one tick of an interval of room r (server.js 550-557); k = "cur" is
\* room.interval, k = "old" an interval startGameTimer no longer references.
\* A tick for a room already removed only changes the unreachable object.
Tick(r, k) ==
    /\ r \in rooms
    /\ IF k = "cur" THEN timers[r].cur ELSE timers[r].old > 0
    /\ LET rm == [room[r] EXCEPT !.time = @ - 1]
       IN /\ room' = [room EXCEPT ![r] = rm]
          /\ IF rm.time <= 0
             THEN /\ settleRuns[r] < MaxSettle
                  /\ timers' = [timers EXCEPT ![r] = clearsInterval(@, k)]
                  /\ aiTimers' = [aiTimers EXCEPT ![r] = clearAIIntervals(rm, @)]
                  /\ settleRuns' = [settleRuns EXCEPT ![r] = @ + 1]
                  /\ procs' = BagAdd(procs, gameOverStart(r, rm, Online))
             ELSE UNCHANGED <<timers, aiTimers, settleRuns, procs>>
    /\ UNCHANGED <<live, currentUser, sockUsername, sockLp, onlineUsers, accounts, lp,
                   rooms, nextRoom, matchmakingQueue, pendingStart, crashed,
                   gameOvers, lpWrites, quits, starts, finds, env>>

\* after a player's entry of lpResults is set (server.js 667-682): the next
\* pass, or the emit of gameOver and the removal of the room
gameOverNext(old, h) ==
    LET p == Head(h.xs)
        rm == room[h.r]
        done == [h EXCEPT !.xs = Tail(@),
                          !.res = Put(@, p, [lpChange |-> h.n, newLp |-> h.v,
                                             score |-> IF h.ok THEN 0 ELSE rm.scores[p]])]
    IN IF Len(done.xs) = 0
       THEN /\ procs' = BagDel(procs, old)
            /\ gameOvers' = [gameOvers EXCEPT ![h.r] = @ + 1]
            /\ rooms' = rooms \ {h.r}
       ELSE /\ procs' = BagAdd(BagDel(procs, old), loopLocals(done, rm, Online))
            /\ UNCHANGED <<gameOvers, rooms>>

\* the write-back guard of handleGameOver (server.js 659-665)
settlementWrites(h) == ~h.ok

\* the select of a loop pass returns (server.js 653-657)
GameOverRead(h) ==
    /\ h \in DOMAIN procs /\ h.op = "gameOver" /\ h.pc = "read"
    /\ LET got == [h EXCEPT !.v = newLp(dbLp(Head(h.xs)), h.n)]
       IN IF settlementWrites(h)
          THEN /\ procs' = BagAdd(BagDel(procs, h), [got EXCEPT !.pc = "write"])
               /\ UNCHANGED <<gameOvers, rooms>>
          ELSE gameOverNext(h, got)
    /\ UNCHANGED <<live, currentUser, sockUsername, sockLp, onlineUsers, accounts, lp,
                   room, nextRoom, matchmakingQueue, pendingStart, timers, aiTimers, crashed,
                   settleRuns, lpWrites, quits, starts, finds, env>>

\* the update of a loop pass reaches the table (server.js 662, 664)
GameOverWrite(h) ==
    /\ h \in DOMAIN procs /\ h.op = "gameOver" /\ h.pc = "write"
    /\ LET p == Head(h.xs)
       IN /\ lp' = IF p \in accounts THEN [lp EXCEPT ![p] = h.v] ELSE lp
          /\ lpWrites' = IF p \in Humans
                         THEN [lpWrites EXCEPT ![h.r][p] = @ + 1] ELSE lpWrites
    /\ procs' = BagAdd(BagDel(procs, h), [h EXCEPT !.pc = "resume"])
    /\ UNCHANGED <<live, currentUser, sockUsername, sockLp, onlineUsers, accounts,
                   rooms, room, nextRoom, matchmakingQueue, pendingStart, timers, aiTimers,
                   crashed, settleRuns, gameOvers, quits, starts, finds, env>>

\* the handler resumes after the update
GameOverResume(h) ==
    /\ h \in DOMAIN procs /\ h.op = "gameOver" /\ h.pc = "resume"
    /\ gameOverNext(h, h)
    /\ UNCHANGED <<live, currentUser, sockUsername, sockLp, onlineUsers, accounts, lp,
                   room, nextRoom, matchmakingQueue, pendingStart, timers, aiTimers, crashed,
                   settleRuns, lpWrites, quits, starts, finds, env>>

\* ------------------------------------------------- submitWord, quitMatch
\* a test without the list of the words already found
wordRejectedMut(found, cleanWord) == ~dictionarySearch(cleanWord)
\* room.words[currentUser].includes(cleanWord) || !dictionaryTrie.search(cleanWord)
\* (server.js 517)
wordRejected(found, cleanWord) == Includes(found, cleanWord) \/ ~dictionarySearch(cleanWord)

\* submitWord (server.js 511-528); room.words[currentUser] of a user without a
\* word list throws
SubmitWord(s, r, word) ==
    /\ live[s]
    /\ LET cu == currentUser[s]
           cleanWord == toUpperCase(word)
       IN IF r \notin rooms \/ cu = NoUser THEN UNCHANGED <<room, crashed>>
          ELSE IF Len(cleanWord) < 3 THEN UNCHANGED <<room, crashed>>
          ELSE IF cu \notin DOMAIN room[r].words
          THEN crashed' = TRUE /\ UNCHANGED room
          ELSE IF wordRejected(room[r].words[cu], cleanWord)
          THEN UNCHANGED <<room, crashed>>
          ELSE /\ room' = [room EXCEPT ![r].scores[cu] = @ + getWordScore(Len(cleanWord)),
                                       ![r].words[cu] = Append(@, cleanWord)]
               /\ UNCHANGED crashed
    /\ UNCHANGED <<live, currentUser, sockUsername, sockLp, onlineUsers, accounts, lp,
                   rooms, nextRoom, matchmakingQueue, pendingStart, timers, aiTimers, procs,
                   settleRuns, gameOvers, lpWrites, quits, starts, finds, env>>

\* the guard of quitMatch (server.js 531)
quitAllowed(s, r) == currentUser[s] # NoUser /\ r \in rooms

\* quitMatch up to its select (server.js 530-537)
QuitMatch(s, r) ==
    /\ live[s]
    /\ IF quitAllowed(s, r)
       THEN /\ CanSuspend
            /\ quits[r][currentUser[s]] < MaxQuits
            /\ room' = [room EXCEPT ![r] = setScore(@, currentUser[s], Forfeit)]
            /\ quits' = [quits EXCEPT ![r][currentUser[s]] = @ + 1]
            /\ procs' = BagAdd(procs,
                  [Proc("quit", s, "read", currentUser[s], r) EXCEPT
                      !.n = IF room[r].isAI THEN 0 ELSE 0 - QuitPenalty])
       ELSE UNCHANGED <<room, quits, procs>>
    /\ UNCHANGED <<live, currentUser, sockUsername, sockLp, onlineUsers, accounts, lp,
                   rooms, nextRoom, matchmakingQueue, pendingStart, timers, aiTimers, crashed,
                   settleRuns, gameOvers, lpWrites, starts, finds, env>>

\* the select of quitMatch reaches the table (server.js 537)
QuitRead(h) ==
    /\ h \in DOMAIN procs /\ h.op = "quit" /\ h.pc = "read"
    /\ procs' = BagAdd(BagDel(procs, h),
                       [h EXCEPT !.pc = "issue", !.v = newLp(dbLp(h.u), h.n)])
    /\ UNCHANGED <<live, currentUser, sockUsername, sockLp, onlineUsers, accounts, lp,
                   rooms, room, nextRoom, matchmakingQueue, pendingStart, timers, aiTimers,
                   crashed, settleRuns, gameOvers, lpWrites, quits, starts, finds, env>>

\* the handler resumes and issues the update for the connection's currentUser
\* of that moment (server.js 538-542)
QuitIssue(h) ==
    /\ h \in DOMAIN procs /\ h.op = "quit" /\ h.pc = "issue"
    /\ procs' = BagAdd(BagDel(procs, h), [h EXCEPT !.pc = "write", !.u = currentUser[h.s]])
    /\ UNCHANGED <<live, currentUser, sockUsername, sockLp, onlineUsers, accounts, lp,
                   rooms, room, nextRoom, matchmakingQueue, pendingStart, timers, aiTimers,
                   crashed, settleRuns, gameOvers, lpWrites, quits, starts, finds, env>>

\* the update of quitMatch reaches the table (server.js 542)
QuitWrite(h) ==
    /\ h \in DOMAIN procs /\ h.op = "quit" /\ h.pc = "write"
    /\ procs' = BagDel(procs, h)
    /\ lp' = IF h.u \in accounts THEN [lp EXCEPT ![h.u] = h.v] ELSE lp
    /\ UNCHANGED <<live, currentUser, sockUsername, sockLp, onlineUsers, accounts,
                   rooms, room, nextRoom, matchmakingQueue, pendingStart, timers, aiTimers,
                   crashed, settleRuns, gameOvers, lpWrites, quits, starts, finds, env>>

\* -------------------------------------------------------- matchmaking
\* an open band: a difference of exactly 200 is outside
inBandMut(a, b) == a # NoLp /\ b # NoLp /\ Abs(a - b) < Band
\* Math.abs(a - b) <= 200; an undefined lp makes the difference NaN
inBand(a, b) == a # NoLp /\ b # NoLp /\ Abs(a - b) <= Band

\* findMatch up to its select (server.js 267-269)
FindMatch(s) ==
    /\ live[s] /\ currentUser[s] # NoUser
    /\ CanSuspend
    /\ finds[s] < env.finds
    /\ finds' = [finds EXCEPT ![s] = @ + 1]
    /\ procs' = BagAdd(procs, Proc("findMatch", s, "select", currentUser[s], 0))
    /\ UNCHANGED <<live, currentUser, sockUsername, sockLp, onlineUsers, accounts, lp,
                   rooms, room, nextRoom, matchmakingQueue, pendingStart, timers,
                   aiTimers, crashed, settleRuns, gameOvers, lpWrites, quits, starts, env>>

\* the select returns: socket.lp is set, getPlayerWorldRank is awaited
\* (server.js 269-274)
FindMatchSelect(h) ==
    /\ h \in DOMAIN procs /\ h.op = "findMatch" /\ h.pc = "select"
    /\ sockLp' = [sockLp EXCEPT ![h.s] = dbLp(h.u)]
    /\ procs' = BagAdd(BagDel(procs, h), [h EXCEPT !.pc = "rank", !.n = dbLp(h.u)])
    /\ UNCHANGED <<live, currentUser, sockUsername, onlineUsers, accounts, lp,
                   rooms, room, nextRoom, matchmakingQueue, pendingStart, timers,
                   aiTimers, crashed, settleRuns, gameOvers, lpWrites, quits, starts, finds, env>>

\* the first ranked waiting room, in key order, with a free place and its
\* anchor within the band (server.js 277-286); 0 when there is none
joinedRoomId(playerLp) ==
    LET fit == {r \in rooms : /\ room[r].isRankedWaiting
                              /\ Len(room[r].players) < RoomCap
                              /\ inBand(room[r].baseLp, playerLp)}
    IN IF fit = {} THEN 0 ELSE CHOOSE r \in fit : \A x \in fit : r <= x

\* matchedGroup (server.js 305-310): every queued socket within the band
matchedGroup(q, playerLp) ==
    LET near(x) == inBand(sockLp[x], playerLp) IN SelectSeq(q, near)

\* one pass of the loop over matchedGroup (server.js 334-343)
formPass(rm, name) ==
    [setScore(rm, name, 0) EXCEPT !.words = Put(@, name, <<>>),
                                  !.readyStates = Put(@, name, FALSE)]

\* findMatch after getPlayerWorldRank (server.js 275-349)
FindMatchRank(h) ==
    /\ h \in DOMAIN procs /\ h.op = "findMatch" /\ h.pc = "rank"
    /\ LET cu == currentUser[h.s]
           jr == joinedRoomId(h.n)
           q1 == enqueue(matchmakingQueue, h.s)
           un == IF Includes(matchmakingQueue, h.s) THEN sockUsername
                 ELSE [sockUsername EXCEPT ![h.s] = cu]
           group == matchedGroup(q1, h.n)
           out(x) == ~Includes(group, x)
           formed == [newRoom([i \in 1..Len(group) |-> un[group[i]]], FALSE, FALSE, TRUE,
                              NoName, "null", sockLp[group[1]])
                      EXCEPT !.skeys = <<>>, !.scores = <<>>, !.words = <<>>]
       IN IF jr # 0
          THEN /\ room' = [room EXCEPT ![jr] =
                     [formPass(@, cu) EXCEPT !.players = Append(@, cu)]]
               /\ procs' = BagDel(procs, h)
               /\ UNCHANGED <<rooms, nextRoom, matchmakingQueue, sockUsername>>
          ELSE IF Len(group) >= 2
          THEN /\ nextRoom <= env.maxRooms
               /\ matchmakingQueue' = SelectSeq(q1, out)
               /\ sockUsername' = un
               /\ room' = Put(room, nextRoom, formPass(formed, un[group[1]]))
               /\ rooms' = rooms \cup {nextRoom}
               /\ nextRoom' = nextRoom + 1
               /\ procs' = BagAdd(BagDel(procs, h),
                     [h EXCEPT !.pc = "form", !.r = nextRoom, !.xs = Tail(group)])
          ELSE /\ matchmakingQueue' = q1
               /\ sockUsername' = un
               /\ procs' = BagDel(procs, h)
               /\ UNCHANGED <<rooms, room, nextRoom>>
    /\ UNCHANGED <<live, currentUser, sockLp, onlineUsers, accounts, lp, pendingStart,
                   timers, aiTimers, crashed, settleRuns, gameOvers, lpWrites, quits,
                   starts, finds, env>>

\* getPlayerWorldRank of a loop pass returns (server.js 341-345): the next pass,
\* or the emit; rooms[roomId] of a room removed meanwhile throws
FindMatchForm(h) ==
    /\ h \in DOMAIN procs /\ h.op = "findMatch" /\ h.pc = "form"
    /\ IF h.r \notin rooms
       THEN crashed' = TRUE /\ procs' = BagDel(procs, h) /\ UNCHANGED room
       ELSE /\ UNCHANGED crashed
            /\ IF Len(h.xs) = 0
               THEN procs' = BagDel(procs, h) /\ UNCHANGED room
               ELSE /\ room' = [room EXCEPT ![h.r] = formPass(@, sockUsername[Head(h.xs)])]
                    /\ procs' = BagAdd(BagDel(procs, h), [h EXCEPT !.xs = Tail(@)])
    /\ UNCHANGED <<live, currentUser, sockUsername, sockLp, onlineUsers, accounts, lp,
                   rooms, nextRoom, matchmakingQueue, pendingStart, timers, aiTimers,
                   settleRuns, gameOvers, lpWrites, quits, starts, finds, env>>

\* cancelMatch (server.js 351-353)
CancelMatch(s) ==
    /\ live[s]
    /\ LET other(x) == x # s IN matchmakingQueue' = SelectSeq(matchmakingQueue, other)
    /\ UNCHANGED <<live, currentUser, sockUsername, sockLp, onlineUsers, accounts, lp,
                   rooms, room, nextRoom, pendingStart, timers, aiTimers, procs,
                   crashed, settleRuns, gameOvers, lpWrites, quits, starts, finds, env>>

\* a start as soon as one participant is ready
allReadyMut(rm) == \E i \in 1..Len(rm.players) : Get(rm.readyStates, rm.players[i], FALSE)
\* allReady = room.players.every(p => room.readyStates[p]) (server.js 415)
allReady(rm) == \A i \in 1..Len(rm.players) : Get(rm.readyStates, rm.players[i], FALSE)

\* readyRanked (server.js 409-420)
ReadyRanked(s, r) ==
    /\ live[s]
    /\ IF r \in rooms /\ room[r].isRankedWaiting
       THEN LET rm == [room[r] EXCEPT !.readyStates = Put(@, currentUser[s], TRUE)]
            IN IF allReady(rm) /\ Len(rm.players) >= 2
               THEN /\ starts[r] < MaxStarts
                    /\ room' = [room EXCEPT ![r] = beginGameSequence(rm)]
                    /\ pendingStart' = [pendingStart EXCEPT ![r] = @ + 1]
                    /\ starts' = [starts EXCEPT ![r] = @ + 1]
               ELSE /\ room' = [room EXCEPT ![r] = rm]
                    /\ UNCHANGED <<pendingStart, starts>>
       ELSE UNCHANGED <<room, pendingStart, starts>>
    /\ UNCHANGED <<live, currentUser, sockUsername, sockLp, onlineUsers, accounts, lp,
                   rooms, nextRoom, matchmakingQueue, timers, aiTimers, procs, crashed,
                   settleRuns, gameOvers, lpWrites, quits, finds, env>>

aiRoster == <<"AI_Alpha", "AI_Beta", "AI_Gamma", "AI_Delta">>

\* startAIMatch (server.js 471-489)
StartAIMatch(s) ==
    /\ live[s] /\ currentUser[s] # NoUser
    /\ nextRoom <= env.maxRooms
    /\ sockUsername' = [sockUsername EXCEPT ![s] = currentUser[s]]
    /\ room' = Put(room, nextRoom,
          beginGameSequence([newRoom(<<currentUser[s]>> \o aiRoster, FALSE, TRUE, FALSE,
                                     NoName, "null", NoLp) EXCEPT !.host = NoName]))
    /\ rooms' = rooms \cup {nextRoom}
    /\ nextRoom' = nextRoom + 1
    /\ pendingStart' = [pendingStart EXCEPT ![nextRoom] = @ + 1]
    /\ starts' = [starts EXCEPT ![nextRoom] = @ + 1]
    /\ UNCHANGED <<live, currentUser, sockLp, onlineUsers, accounts, lp,
                   matchmakingQueue, timers, aiTimers, procs, crashed, settleRuns,
                   gameOvers, lpWrites, quits, finds, env>>

\* ------------------------------------------------------- specifications
userOf(s) == CASE s = "s1" -> "A" [] s = "s2" -> "B" [] s = "s3" -> "C" [] OTHER -> "D"
sockOf(u) == CASE u = "A" -> "s1" [] u = "B" -> "s2" [] u = "C" -> "s3" [] OTHER -> "s4"
\* the server after start-up: the connections in socks are open and
\* unauthenticated, the table holds the rows acc with the LP lps
InitWith(socks, acc, lps, e) ==
    /\ live = [s \in Sockets |-> s \in socks]
    /\ currentUser = [s \in Sockets |-> NoUser]
    /\ sockUsername = [s \in Sockets |-> NoName]
    /\ sockLp = [s \in Sockets |-> NoLp]
    /\ onlineUsers = [u \in Humans |-> NoSock]
    /\ accounts = acc
    /\ lp = lps
    /\ rooms = {}
    /\ room = <<>>
    /\ nextRoom = 1
    /\ matchmakingQueue = <<>>
    /\ pendingStart = [r \in RoomIds |-> 0]
    /\ timers = [r \in RoomIds |-> NoTimer]
    /\ aiTimers = [r \in RoomIds |-> {}]
    /\ procs = <<>>
    /\ crashed = FALSE
    /\ settleRuns = [r \in RoomIds |-> 0]
    /\ gameOvers = [r \in RoomIds |-> 0]
    /\ lpWrites = [r \in RoomIds |-> [u \in Humans |-> 0]]
    /\ quits = [r \in RoomIds |-> [u \in Humans |-> 0]]
    /\ starts = [r \in RoomIds |-> 0]
    /\ finds = [s \in Sockets |-> 0]
    /\ env = e


\* ------------------------------------------- one custom room, started
\* the username each connection logs in with
OwnLogin == [s \in Sockets |-> IF s = "s1" THEN {"A"} ELSE IF s = "s2" THEN {"B"} ELSE {}]

\* two connections, two accounts, no room yet
InitStart ==
    InitWith({"s1", "s2"}, {"A", "B"}, [u \in Humans |-> InitLp],
             [login |-> OwnLogin, maxRooms |-> SoloRooms, pw |-> {TRUE},
              inflight |-> MaxInflight, finds |-> MaxFinds])

NextStart ==
    \/ \E s \in LiveSockets, u \in Humans, ok \in env.pw :
          u \in env.login[s] /\ LoginBegin(s, u, ok)
    \/ \E h \in DOMAIN procs : LoginResume(h)
    \/ \E s \in LiveSockets : CreateRoom(s, "null")
    \/ \E s \in LiveSockets, r \in RoomIds : JoinRoom(s, r, "null")
    \/ \E s \in LiveSockets, r \in RoomIds : StartCustomGame(s, r)
    \/ \E r \in RoomIds : StartTimeout(r)
    \/ \E r \in RoomIds, k \in {"cur", "old"} : Tick(r, k)
    \/ \E h \in DOMAIN procs : GameOverRead(h)
    \/ \E h \in DOMAIN procs : GameOverWrite(h)
    \/ \E h \in DOMAIN procs : GameOverResume(h)

SpecStart == InitStart /\ [][NextStart]_vars

\* C1: handleGameOver runs at most once for a room, emits gameOver at most
\* once and writes a participant's LP at most once, also when the host sends
\* startCustomGame again.
C1_SettlesOnce ==
    \A r \in RoomIds :
        /\ settleRuns[r] <= 1
        /\ gameOvers[r] <= 1
        /\ \A u \in Humans : lpWrites[r][u] <= 1

\* ------------------------------------------- one custom room, quitMatch
\* as InitStart; the countdown of the started room has not ticked yet
InitQuit ==
    InitWith({"s1", "s2"}, {"A", "B"}, [u \in Humans |-> InitLp],
             [login |-> OwnLogin, maxRooms |-> SoloRooms, pw |-> {TRUE},
              inflight |-> MaxInflight, finds |-> MaxFinds])

NextQuit ==
    \/ \E s \in LiveSockets, u \in Humans, ok \in env.pw :
          u \in env.login[s] /\ LoginBegin(s, u, ok)
    \/ \E h \in DOMAIN procs : LoginResume(h)
    \/ \E s \in LiveSockets : CreateRoom(s, "null")
    \/ \E s \in LiveSockets, r \in RoomIds : JoinRoom(s, r, "null")
    \/ \E s \in LiveSockets, r \in RoomIds : StartCustomGame(s, r)
    \/ \E r \in RoomIds : StartTimeout(r)
    \/ \E s \in LiveSockets, r \in RoomIds : QuitMatch(s, r)
    \/ \E h \in DOMAIN procs : QuitRead(h)
    \/ \E h \in DOMAIN procs : QuitIssue(h)
    \/ \E h \in DOMAIN procs : QuitWrite(h)

SpecQuit == InitQuit /\ [][NextQuit]_vars

\* C2: over any number of quitMatch events for the room, a participant's
\* stored LP is lowered by at most 20, and settlement writes no LP for a
\* participant who sent quitMatch.
C2_ChargedOnce ==
    \A u \in Humans :
        /\ lp[u] >= InitLp - QuitPenalty
        /\ \A r \in RoomIds : quits[r][u] > 0 => lpWrites[r][u] = 0

\* C4: the keys of room.scores and the keys of room.words are the identities
\* of room.players, for every room of the registry.
C4_KeySets ==
    \A r \in rooms :
        /\ DOMAIN room[r].scores = SeqToSet(room[r].players)
        /\ DOMAIN room[r].words = SeqToSet(room[r].players)

\* ------------------------------------------- the lobby of custom rooms
\* two connections, two accounts, up to MaxRooms custom rooms
Init ==
    InitWith({"s1", "s2"}, {"A", "B"}, [u \in Humans |-> InitLp],
             [login |-> OwnLogin, maxRooms |-> MaxRooms, pw |-> {TRUE},
              inflight |-> MaxInflight, finds |-> MaxFinds])

Next ==
    \/ \E s \in LiveSockets, u \in Humans, ok \in env.pw :
          u \in env.login[s] /\ LoginBegin(s, u, ok)
    \/ \E h \in DOMAIN procs : LoginResume(h)
    \/ \E s \in LiveSockets : Logout(s)
    \/ \E s \in LiveSockets : CreateRoom(s, "null")
    \/ \E s \in LiveSockets, r \in RoomIds : JoinRoom(s, r, "null")
    \/ \E s \in LiveSockets, r \in RoomIds : LeaveWaitingRoom(s, r)

Spec == Init /\ [][Next]_vars

\* C3: every identity is in the participant list of at most one room of
\* the registry.
C3_OneRoom ==
    \A u \in Humans :
        Cardinality({r \in rooms : Includes(room[r].players, u)}) <= 1

\* ------------------------------------------------- authentication
\* two connections that use the usernames A (registered) and B (not yet)
InitAuth ==
    InitWith({"s1", "s2"}, {"A"}, [u \in Humans |-> InitLp],
             [login |-> [s \in Sockets |-> {"A", "B"}], maxRooms |-> 0,
              pw |-> {TRUE, FALSE}, inflight |-> MaxInflight, finds |-> MaxFinds])

NextAuth ==
    \/ \E s \in LiveSockets, u \in Humans : u \in env.login[s] /\ RegisterBegin(s, u)
    \/ \E h \in DOMAIN procs : RegisterSelect(h)
    \/ \E h \in DOMAIN procs : RegisterInsert(h)
    \/ \E s \in LiveSockets, u \in Humans, ok \in env.pw :
          u \in env.login[s] /\ LoginBegin(s, u, ok)
    \/ \E h \in DOMAIN procs : LoginResume(h)
    \/ \E s \in LiveSockets, u \in Humans, ok \in env.pw :
          u \in env.login[s] /\ ReconnectBegin(s, u, ok)
    \/ \E h \in DOMAIN procs : ReconnectResume(h)
    \/ \E s \in LiveSockets : Logout(s)
    \/ \E s \in LiveSockets : Disconnect(s)

SpecAuth == InitAuth /\ [][NextAuth]_vars

\* C6: no two live connections are authenticated as the same identity.
C6_OneConnection ==
    \A s, t \in LiveSockets :
        (s # t /\ currentUser[s] # NoUser) => currentUser[s] # currentUser[t]

\* ------------------------------------------------- ranked matchmaking
\* five connections; s1 and s2 stay as they are; s3 and s4 log out of C and
\* D; s3, s4 and s5 log in with the accounts E, F and G, whose LP is within
\* the band of A's and of B's, and send findMatch
MatchLp == [u \in Humans |->
              CASE u = "A" -> 0 [] u = "B" -> 400 [] u = "C" -> 1000
                [] u = "D" -> 2000 [] OTHER -> 200]
MatchLogin == [s \in Sockets |->
                 CASE s = "s3" -> {"E"} [] s = "s4" -> {"F"} [] s = "s5" -> {"G"}
                   [] OTHER -> {}]

\* s1..s4 have logged in as A..D and sent findMatch one after the other:
\* their LPs are pairwise more than the band apart, so each of them is
\* queued and no room was formed; s5 is connected and not logged in
Queued ==
    /\ live = [s \in Sockets |-> TRUE]
    /\ currentUser = [s \in Sockets |-> IF s = "s5" THEN NoUser ELSE userOf(s)]
    /\ sockUsername = [s \in Sockets |-> IF s = "s5" THEN NoName ELSE userOf(s)]
    /\ sockLp = [s \in Sockets |-> IF s = "s5" THEN NoLp ELSE MatchLp[userOf(s)]]
    /\ onlineUsers = [u \in Humans |-> IF u \in {"A", "B", "C", "D"} THEN sockOf(u)
                                         ELSE NoSock]
    /\ accounts = Humans
    /\ lp = MatchLp
    /\ rooms = {}
    /\ room = <<>>
    /\ nextRoom = 1
    /\ matchmakingQueue = <<"s1", "s2", "s3", "s4">>
    /\ pendingStart = [r \in RoomIds |-> 0]
    /\ timers = [r \in RoomIds |-> NoTimer]
    /\ aiTimers = [r \in RoomIds |-> {}]
    /\ procs = <<>>
    /\ crashed = FALSE

\* the way into Queued from the start of the server: Queued is reachable in
\* SpecQueue (~Queued is not an invariant of it)
InitQueue ==
    InitWith(Sockets, Humans, MatchLp,
             [login |-> [s \in Sockets |-> IF s = "s5" THEN {} ELSE {userOf(s)}],
              maxRooms |-> SoloRooms, pw |-> {TRUE}, inflight |-> 1,
              finds |-> MatchFinds])

NextQueue ==
    \/ \E s \in LiveSockets, u \in Humans, ok \in env.pw :
          u \in env.login[s] /\ LoginBegin(s, u, ok)
    \/ \E h \in DOMAIN procs : LoginResume(h)
    \/ \E s \in LiveSockets : FindMatch(s)
    \/ \E h \in DOMAIN procs : FindMatchSelect(h)
    \/ \E h \in DOMAIN procs : FindMatchRank(h)

SpecQueue == InitQueue /\ [][NextQueue]_vars

InitMatch ==
    /\ Queued
    /\ settleRuns = [r \in RoomIds |-> 0]
    /\ gameOvers = [r \in RoomIds |-> 0]
    /\ lpWrites = [r \in RoomIds |-> [u \in Humans |-> 0]]
    /\ quits = [r \in RoomIds |-> [u \in Humans |-> 0]]
    /\ starts = [r \in RoomIds |-> 0]
    /\ finds = [s \in Sockets |-> 0]
    /\ env = [login |-> MatchLogin, maxRooms |-> SoloRooms, pw |-> {TRUE},
              inflight |-> MatchInflight, finds |-> MatchFinds]

NextMatch ==
    \/ \E s \in LiveSockets, u \in Humans, ok \in env.pw :
          u \in env.login[s] /\ LoginBegin(s, u, ok)
    \/ \E h \in DOMAIN procs : LoginResume(h)
    \/ \E s \in LiveSockets : currentUser[s] \in {"C", "D"} /\ Logout(s)
    \/ \E s \in LiveSockets : env.login[s] # {} /\ FindMatch(s)
    \/ \E h \in DOMAIN procs : FindMatchSelect(h)
    \/ \E h \in DOMAIN procs : FindMatchRank(h)
    \/ \E h \in DOMAIN procs : FindMatchForm(h)

SpecMatch == InitMatch /\ [][NextMatch]_vars

\* C5: no room that is not an AI room has more than 4 participants.
C5_RoomCap ==
    \A r \in rooms : ~room[r].isAI => Len(room[r].players) <= RoomCap

\* ------------------------------------- settlement of one custom room
ScoreInputs == {Forfeit, 0, 10, 20, 30}
Rosters == { <<"A", "B">>, <<"A", "B", "C">>, <<"A", "B", "C", "D">> }

\* word lists submitWord accepts that add up to a score
wordsFor(score) ==
    IF score = 9 THEN <<Cabbage, Banana, Cat>>
    ELSE IF score = 10 THEN <<Cabbage, Banana, House>>
    ELSE IF score = 25 THEN <<Alphabet, Backbone, Banana>>
    ELSE IF score = 20 THEN <<Alphabet, Cabbage, Banana, Cat>>
    ELSE IF score = 30 THEN <<Alphabet, Backbone, Cabbage, Banana>>
    ELSE <<>>

NoEnv == [login |-> [s \in Sockets |-> {}], maxRooms |-> 0, pw |-> {TRUE},
          inflight |-> MaxInflight, finds |-> MaxFinds]

\* A created a custom room, the others of the roster joined, A started it
\* once, words were submitted and some participants sent quitMatch; the
\* room is in its last second and every participant is still connected.
InitSettle ==
    \E ps \in Rosters : \E sc \in [SeqToSet(ps) -> ScoreInputs] :
        LET in == SeqToSet(ps)
            rm == [newRoom(ps, TRUE, FALSE, FALSE, "A", "null", NoLp) EXCEPT
                      !.scores = sc,
                      !.words = [p \in in |-> wordsFor(sc[p])],
                      !.time = 1, !.status = "playing"]
        IN /\ live = [s \in Sockets |-> s # "s5" /\ userOf(s) \in in]
           /\ currentUser = [s \in Sockets |-> IF live[s] THEN userOf(s) ELSE NoUser]
           /\ sockUsername = [s \in Sockets |-> IF live[s] THEN userOf(s) ELSE NoName]
           /\ sockLp = [s \in Sockets |-> NoLp]
           /\ onlineUsers = [u \in Humans |-> IF u \in in THEN sockOf(u) ELSE NoSock]
           /\ accounts = Humans
           /\ lp = [u \in Humans |-> InitLp]
           /\ rooms = {1}
           /\ room = Put(<<>>, 1, rm)
           /\ nextRoom = 2
           /\ matchmakingQueue = <<>>
           /\ pendingStart = [r \in RoomIds |-> 0]
           /\ timers = [r \in RoomIds |-> IF r = 1 THEN [NoTimer EXCEPT !.cur = TRUE]
                                          ELSE NoTimer]
           /\ aiTimers = [r \in RoomIds |-> {}]
           /\ procs = <<>>
           /\ crashed = FALSE
           /\ settleRuns = [r \in RoomIds |-> 0]
           /\ gameOvers = [r \in RoomIds |-> 0]
           /\ lpWrites = [r \in RoomIds |-> [u \in Humans |-> 0]]
           /\ quits = [r \in RoomIds |-> [u \in Humans |->
                         IF r = 1 /\ u \in in /\ sc[u] = Forfeit THEN 1 ELSE 0]]
           /\ starts = [r \in RoomIds |-> IF r = 1 THEN 1 ELSE 0]
           /\ finds = [s \in Sockets |-> 0]
           /\ env = NoEnv

NextSettle ==
    \/ \E s \in Sockets : Disconnect(s)
    \/ Tick(1, "cur")
    \/ \E h \in DOMAIN procs : GameOverRead(h)
    \/ \E h \in DOMAIN procs : GameOverWrite(h)
    \/ \E h \in DOMAIN procs : GameOverResume(h)

SpecSettle == InitSettle /\ [][NextSettle]_vars

\* the suspended activations of handleGameOver for rooms that are not AI rooms
Settling == {h \in DOMAIN procs : h.op = "gameOver" /\ ~room[h.r].isAI}
\* the participants settlement ranks, and those it counts as valid
Ranked(h) == DOMAIN h.asg
Valid(h) == {p \in Ranked(h) : p \in h.on /\ h.sc[p] # Forfeit}
AllDistinct(h) == \A p, q \in Ranked(h) : p # q => h.sc[p] # h.sc[q]
AllEqual(h) == \A p, q \in Ranked(h) : h.sc[p] = h.sc[q]
RankOf(h, p) == 1 + Cardinality({q \in Ranked(h) : h.sc[q] > h.sc[p]})
Lowest(h) == {p \in Ranked(h) : \A q \in Ranked(h) : h.sc[p] <= h.sc[q]}
Highest(h) == {p \in Ranked(h) : \A q \in Ranked(h) : h.sc[p] >= h.sc[q]}
\* the delta of the table of section 4 for distinct scores
Section4(n, rank) ==
    IF rank = 1 THEN 20
    ELSE IF rank = n THEN 0 - 5
    ELSE IF n = 4 /\ rank = 2 THEN 5
    ELSE 0

\* C7: when the 2, 3 or 4 participants of a room that is not an AI room have
\* pairwise distinct scores, are all connected and none has forfeited, the
\* deltas by descending score are +20, -5 / +20, 0, -5 / +20, +5, 0, -5.
C7_DistinctScores ==
    \A h \in Settling :
        (/\ Cardinality(Ranked(h)) \in 2..4
         /\ AllDistinct(h)
         /\ Valid(h) = Ranked(h))
        => \A p \in Ranked(h) :
              h.asg[p] = Section4(Cardinality(Ranked(h)), RankOf(h, p))

C7_Witness ==
    \E h \in Settling :
        /\ Cardinality(Ranked(h)) = 4 /\ AllDistinct(h) /\ Valid(h) = Ranked(h)
        /\ \E p \in Ranked(h) : RankOf(h, p) = 2 /\ h.asg[p] = 5

\* C8: with scores that are not all equal, every participant connected and
\* none forfeited, each member of the lowest-scoring group gets -5 whatever
\* the size of the group, each member of a first-place group of size 2 gets
\* +10 and of size 3 gets +6; scores [30,30,10,0] settle as [+10,+10,0,-5].
C8_TieGroups ==
    \A h \in Settling :
        (Valid(h) = Ranked(h) /\ ~AllEqual(h))
        => /\ \A p \in Lowest(h) : h.asg[p] = 0 - 5
           /\ Cardinality(Highest(h)) = 2 => \A p \in Highest(h) : h.asg[p] = 10
           /\ Cardinality(Highest(h)) = 3 => \A p \in Highest(h) : h.asg[p] = 6
           /\ h.sc = [A |-> 30, B |-> 30, C |-> 10, D |-> 0]
              => h.asg = [A |-> 10, B |-> 10, C |-> 0, D |-> 0 - 5]

C8_Witness ==
    \E h \in Settling :
        /\ Valid(h) = Ranked(h)
        /\ h.sc = [A |-> 30, B |-> 30, C |-> 10, D |-> 0]
        /\ h.asg = [A |-> 10, B |-> 10, C |-> 0, D |-> 0 - 5]

C10_TotalTie ==
    \A h \in Settling :
        (AllEqual(h) /\ Cardinality(Valid(h)) > 1)
        => \A p \in Ranked(h) :
              h.asg[p] = IF p \in Valid(h) THEN 0 ELSE 0 - 20

C10_Witness ==
    \E h \in Settling :
        /\ AllEqual(h) /\ Cardinality(Valid(h)) = 2
        /\ \E p \in Ranked(h) \ Valid(h) : h.asg[p] = 0 - 20
        /\ \A p \in Valid(h) : h.asg[p] = 0

\* ------------------------------------------------ LP writes near zero
\* the scores and the LP the rooms of SpecLp start their last second with
LpScores == {0, 9, 10, 25}
LowLp == {0, 3, 30}

\* room 1 in its last second: either the custom room of A and B, started
\* once by A, or the AI room of A; every human participant is connected and
\* the table holds the LP lps
LastSecond(ps, ai, sc, lps) ==
    LET in == {p \in SeqToSet(ps) : isHuman(p)}
        rm == [newRoom(ps, ~ai, ai, FALSE, IF ai THEN NoName ELSE "A", "null", NoLp)
                  EXCEPT !.scores = [p \in SeqToSet(ps) |-> IF p \in in THEN sc[p] ELSE 0],
                         !.words = [p \in SeqToSet(ps) |->
                                       IF p \in in THEN wordsFor(sc[p]) ELSE <<>>],
                         !.time = 1, !.status = "playing"]
    IN /\ live = [s \in Sockets |-> s # "s5" /\ userOf(s) \in in]
       /\ currentUser = [s \in Sockets |-> IF live[s] THEN userOf(s) ELSE NoUser]
       /\ sockUsername = [s \in Sockets |-> IF live[s] THEN userOf(s) ELSE NoName]
       /\ sockLp = [s \in Sockets |-> NoLp]
       /\ onlineUsers = [u \in Humans |-> IF u \in in THEN sockOf(u) ELSE NoSock]
       /\ accounts = Humans
       /\ lp = [u \in Humans |-> IF u \in in THEN lps[u] ELSE InitLp]
       /\ rooms = {1}
       /\ room = Put(<<>>, 1, rm)
       /\ nextRoom = 2
       /\ matchmakingQueue = <<>>
       /\ pendingStart = [r \in RoomIds |-> 0]
       /\ timers = [r \in RoomIds |-> IF r = 1 THEN [NoTimer EXCEPT !.cur = TRUE]
                                      ELSE NoTimer]
       /\ aiTimers = [r \in RoomIds |-> IF r = 1 THEN startAILogic(rm, {}) ELSE {}]
       /\ procs = <<>>
       /\ crashed = FALSE
       /\ settleRuns = [r \in RoomIds |-> 0]
       /\ gameOvers = [r \in RoomIds |-> 0]
       /\ lpWrites = [r \in RoomIds |-> [u \in Humans |-> 0]]
       /\ quits = [r \in RoomIds |-> [u \in Humans |-> 0]]
       /\ starts = [r \in RoomIds |-> IF r = 1 THEN 1 ELSE 0]
       /\ finds = [s \in Sockets |-> 0]
       /\ env = NoEnv

InitLpRoom ==
    \E ai \in BOOLEAN :
        LET ps == IF ai THEN <<"A">> \o aiRoster ELSE <<"A", "B">>
            in == {p \in SeqToSet(ps) : isHuman(p)}
        IN \E sc \in [in -> LpScores] : \E lps \in [in -> LowLp] :
              /\ "B" \in in => sc["B"] = 10
              /\ LastSecond(ps, ai, sc, lps)

NextLpRoom ==
    \/ \E s \in Sockets : Disconnect(s)
    \/ \E s \in Sockets : QuitMatch(s, 1)
    \/ \E h \in DOMAIN procs : QuitRead(h)
    \/ \E h \in DOMAIN procs : QuitIssue(h)
    \/ \E h \in DOMAIN procs : QuitWrite(h)
    \/ \E ai \in SeqToSet(aiRoster) : AITick(1, ai, Cat)
    \/ Tick(1, "cur")
    \/ \E h \in DOMAIN procs : GameOverRead(h)
    \/ \E h \in DOMAIN procs : GameOverWrite(h)
    \/ \E h \in DOMAIN procs : GameOverResume(h)

SpecLp == InitLpRoom /\ [][NextLpRoom]_vars

\* C11: the LP of every account is a non-negative integer in every state, and
\* the value every pending update of handleGameOver or quitMatch carries is
\* max(0, LP read + delta): it is never negative, and when it is positive it
\* is a non-negative LP plus the delta.
C11_LpNonNegative ==
    /\ \A u \in Humans : lp[u] \in Nat
    /\ \A h \in DOMAIN procs :
          (h.pc = "write" /\ h.op \in {"gameOver", "quit"})
          => /\ h.v \in Nat
             /\ h.v > 0 => h.v - h.n \in Nat

\* a settlement update and a quitMatch update that would have gone below
\* zero both stored 0
C11_Witness ==
    \E h \in DOMAIN procs : \E p, q \in Humans :
        /\ h.op = "gameOver" /\ p \in DOMAIN h.res
        /\ h.res[p].lpChange < 0 /\ h.res[p].newLp = 0
        /\ lpWrites[1][p] = 1 /\ lp[p] = 0
        /\ q # p /\ quits[1][q] > 0 /\ lp[q] = 0
        /\ \A g \in DOMAIN procs : g.op # "quit"

\* the suspended activations of handleGameOver for AI rooms, before the
\* pass of their human is over
SettlingAI == {h \in DOMAIN procs : h.op = "gameOver" /\ room[h.r].isAI /\ h.xs # <<>>}

\* C12: in an AI room the delta of the human is floor(score / 10) when the
\* final score is at least 10 and the human is connected and has not
\* forfeited, and 0 otherwise; the delta of a quitMatch in an AI room is 0;
\* no delta of an AI room is negative.
C12_AIDelta ==
    /\ \A h \in SettlingAI :
          LET p == Head(h.xs)
          IN /\ h.n >= 0
             /\ IF h.sc[p] >= 10 /\ p \in h.on /\ h.sc[p] # Forfeit
                THEN 10 * h.n <= h.sc[p] /\ h.sc[p] < 10 * h.n + 10
                ELSE h.n = 0
    /\ \A h \in DOMAIN procs : (h.op = "quit" /\ room[h.r].isAI) => h.n = 0

\* the human of an AI room ended with 25 points and the update of +2 was made
C12_Witness ==
    \E h \in SettlingAI :
        /\ h.sc["A"] = 25 /\ "A" \in h.on /\ h.n = 2 /\ h.pc = "resume"
        /\ lpWrites[h.r]["A"] = 1

\* ------------------------------------------- the band of matchmaking
\* the connections socks are logged in, each as its userOf, and have sent
\* nothing else; the table holds the LP lps
LoggedIn(socks, lps, e) ==
    /\ live = [s \in Sockets |-> s \in socks]
    /\ currentUser = [s \in Sockets |-> IF s \in socks THEN userOf(s) ELSE NoUser]
    /\ sockUsername = [s \in Sockets |-> NoName]
    /\ sockLp = [s \in Sockets |-> NoLp]
    /\ onlineUsers = [u \in Humans |-> IF \E s \in socks : userOf(s) = u THEN sockOf(u)
                                         ELSE NoSock]
    /\ accounts = Humans
    /\ lp = lps
    /\ rooms = {}
    /\ room = <<>>
    /\ nextRoom = 1
    /\ matchmakingQueue = <<>>
    /\ pendingStart = [r \in RoomIds |-> 0]
    /\ timers = [r \in RoomIds |-> NoTimer]
    /\ aiTimers = [r \in RoomIds |-> {}]
    /\ procs = <<>>
    /\ crashed = FALSE
    /\ settleRuns = [r \in RoomIds |-> 0]
    /\ gameOvers = [r \in RoomIds |-> 0]
    /\ lpWrites = [r \in RoomIds |-> [u \in Humans |-> 0]]
    /\ quits = [r \in RoomIds |-> [u \in Humans |-> 0]]
    /\ starts = [r \in RoomIds |-> 0]
    /\ finds = [s \in Sockets |-> 0]
    /\ env = e

\* A has 0 LP, C and D have 400, B has 200: exactly the band away from A and
\* from C
RankedLp == [u \in Humans |-> CASE u = "A" -> 0 [] u = "B" -> 200 [] OTHER -> 400]

\* s1, s2 and s3 are logged in as A, B and C; B has 200 LP or 201, one more
\* than the band away from A
InitBand ==
    \E b \in {200, 201} :
        LoggedIn({"s1", "s2", "s3"}, [RankedLp EXCEPT !["B"] = b],
                 [login |-> [s \in Sockets |-> {}], maxRooms |-> MaxRooms, pw |-> {TRUE},
                  inflight |-> MatchInflight, finds |-> MatchFinds])

NextBand ==
    \/ \E s \in LiveSockets : FindMatch(s)
    \/ \E h \in DOMAIN procs : FindMatchSelect(h)
    \/ \E h \in DOMAIN procs : FindMatchRank(h)
    \/ \E h \in DOMAIN procs : FindMatchForm(h)
    \/ \E s \in LiveSockets : CancelMatch(s)

SpecBand == InitBand /\ [][NextBand]_vars

Count(b, x) == IF x \in DOMAIN b THEN b[x] ELSE 0
\* the step is the part of findMatch after getPlayerWorldRank, of activation h
Ranks(h) == h.op = "findMatch" /\ h.pc = "rank" /\ Count(procs', h) < Count(procs, h)
\* the step puts identity u into room r
Placed(u, r) ==
    /\ r \in rooms' /\ Includes(room'[r].players, u)
    /\ r \in rooms => Len(room'[r].players) > Len(room[r].players)

InitQueueing ==
    LoggedIn({"s1", "s2", "s3", "s4"}, RankedLp,
             [login |-> [s \in Sockets |-> {}], maxRooms |-> MaxRooms, pw |-> {TRUE},
              inflight |-> QueueInflight, finds |-> MaxFinds])

\* B may send findMatch twice, the others once; C may disconnect
NextQueueing ==
    \/ \E s \in LiveSockets : (s = "s2" \/ finds[s] < MatchFinds) /\ FindMatch(s)
    \/ \E h \in DOMAIN procs : FindMatchSelect(h)
    \/ \E h \in DOMAIN procs : FindMatchRank(h)
    \/ \E h \in DOMAIN procs : FindMatchForm(h)
    \/ \E s \in LiveSockets : CancelMatch(s)
    \/ \E s \in LiveSockets, r \in RoomIds : LeaveWaitingRoom(s, r)
    \/ Disconnect("s3")

SpecQueueing == InitQueueing /\ [][NextQueueing]_vars

\* the ranked rooms that list the identity of connection s
RankedRoomsOf(s) ==
    {r \in rooms : /\ ~room[r].isCustom /\ ~room[r].isAI
                   /\ currentUser[s] # NoUser
                   /\ Includes(room[r].players, currentUser[s])}

\* C14: no connection is an entry of the matchmaking queue and a participant
\* of a ranked room at the same time.
C14_QueuedOrPlaced ==
    \A s \in SeqToSet(matchmakingQueue) : RankedRoomsOf(s) = {}

\* C15: the matchmaking queue never contains the same connection twice.
C15_NoDuplicate ==
    Cardinality(SeqToSet(matchmakingQueue)) = Len(matchmakingQueue)

\* B sent findMatch twice with nobody to be matched with, both requests are
\* over, and B is queued once
C15_Witness ==
    /\ finds["s2"] = 2 /\ procs = <<>> /\ rooms = {}
    /\ matchmakingQueue = <<"s2">>

\* ------------------------------------------------ the start of a room
\* s2, s3 and s4 are logged in as B, C and D, with 200, 400 and 400 LP
InitReady ==
    LoggedIn({"s2", "s3", "s4"}, RankedLp,
             [login |-> [s \in Sockets |-> {}], maxRooms |-> MaxRooms, pw |-> {TRUE},
              inflight |-> QueueInflight, finds |-> MatchFinds])

NextReady ==
    \/ \E s \in LiveSockets : FindMatch(s)
    \/ \E h \in DOMAIN procs : FindMatchSelect(h)
    \/ \E h \in DOMAIN procs : FindMatchRank(h)
    \/ \E h \in DOMAIN procs : FindMatchForm(h)
    \/ \E s \in LiveSockets, r \in RoomIds : ReadyRanked(s, r)
    \/ \E s \in LiveSockets, r \in RoomIds : LeaveWaitingRoom(s, r)
    \/ \E s \in LiveSockets, r \in RoomIds : StartCustomGame(s, r)

SpecReady == InitReady /\ [][NextReady]_vars

\* the step takes room r, a ranked room, out of the waiting state
RankedStarts(r) ==
    /\ r \in rooms /\ room[r].isRankedWaiting /\ room[r].status = "waiting"
    /\ r \in rooms' /\ room'[r].status # "waiting"

\* C16: a step that takes a ranked room out of the waiting state is a
\* readyRanked step: it sets the ready flag of the sender and nothing else
\* of the room but its status, and after it every identity of the
\* participant list has its ready flag set and the list has at least 2
\* entries.
C16_ReadyStart ==
    [][\A r \in RoomIds :
          RankedStarts(r) =>
              /\ \E s \in LiveSockets :
                    room'[r] = beginGameSequence(
                        [room[r] EXCEPT !.readyStates = Put(@, currentUser[s], TRUE)])
              /\ Len(room'[r].players) >= 2
              /\ \A p \in SeqToSet(room'[r].players) :
                    p \in DOMAIN room'[r].readyStates /\ room'[r].readyStates[p]
      ]_vars

\* two participants were ready, the third left the room and then signalled
\* ready: the room of the two has started
C16_Witness ==
    \E r \in rooms : \E u \in Humans :
        /\ room[r].status = "playing" /\ Len(room[r].players) = 2
        /\ ~Includes(room[r].players, u)
        /\ u \in DOMAIN room[r].readyStates /\ room[r].readyStates[u]
        /\ \A p \in SeqToSet(room[r].players) : room[r].readyStates[p]

\* the step takes room r, a custom room, out of the waiting state
CustomStarts(r) ==
    /\ r \in rooms /\ room[r].isCustom /\ room[r].status = "waiting"
    /\ r \in rooms' /\ room'[r].status # "waiting"

\* C17: a step that takes a custom room out of the waiting state is a
\* startCustomGame step of a connection whose identity is the room's host,
\* taken while the room lists at least 2 participants; a startCustomGame
\* from any other connection, or for a room with fewer than 2 participants,
\* changes neither the room nor its timers.
C17_HostStart ==
    [][/\ \A r \in RoomIds :
             CustomStarts(r) =>
                 /\ \E s \in LiveSockets :
                       currentUser[s] = room[r].host /\ StartCustomGame(s, r)
                 /\ Len(room[r].players) >= 2
                 /\ room'[r].players = room[r].players
       /\ \A s \in LiveSockets, r \in RoomIds :
             (/\ StartCustomGame(s, r)
              /\ ~(r \in rooms /\ currentUser[s] = room[r].host
                              /\ Len(room[r].players) >= 2))
             => UNCHANGED <<room, rooms, timers, pendingStart>>
      ]_vars

\* the room A created and B joined was started once and its countdown runs
C17_Witness ==
    \E r \in rooms :
        /\ room[r].isCustom /\ room[r].status = "playing" /\ room[r].host = "A"
        /\ room[r].players = <<"A", "B">> /\ starts[r] = 1 /\ timers[r].cur

\* ------------------------------------------ words and joins of one room
\* s1, s2 and s3 are logged in as A, B and C; no room yet
InitWords ==
    LoggedIn({"s1", "s2", "s3"}, [u \in Humans |-> InitLp],
             [login |-> [s \in Sockets |-> {}], maxRooms |-> SoloRooms, pw |-> {TRUE},
              inflight |-> MaxInflight, finds |-> MaxFinds])

NextWords ==
    \/ \E s \in LiveSockets : CreateRoom(s, "null")
    \/ \E s \in LiveSockets, r \in RoomIds : JoinRoom(s, r, "null")
    \/ \E s \in LiveSockets, r \in RoomIds : StartCustomGame(s, r)
    \/ \E r \in RoomIds : StartTimeout(r)
    \/ \E s \in LiveSockets, r \in RoomIds, word \in WordInputs : SubmitWord(s, r, word)

SpecWords == InitWords /\ [][NextWords]_vars

\* the countdown of room r has not been started: the room is waiting, or it
\* is in the loading period between gameLoading and gameStart
BeforeCountdown(r) ==
    \/ room[r].status = "waiting"
    \/ room[r].status = "playing" /\ ~timers[r].cur /\ timers[r].old = 0

\* C18: while the countdown of a room has not been started no submitWord has
\* changed a score or recorded a word.
C18_ScoredWhilePlaying ==
    \A r \in rooms :
        BeforeCountdown(r)
        => \A p \in DOMAIN room[r].words :
              room[r].words[p] = <<>> /\ room[r].scores[p] = 0

\* C19: no step changes the participant list of a room that has left the
\* waiting state.
C19_JoinsWhileWaiting ==
    [][\A r \in rooms :
          (room[r].status # "waiting" /\ r \in rooms')
          => room'[r].players = room[r].players
      ]_vars

\* the points of a list of credited words
RECURSIVE wordPoints(_)
wordPoints(ws) == IF ws = <<>> THEN 0 ELSE getWordScore(Len(Head(ws))) + wordPoints(Tail(ws))

\* C20: the list of credited words of a participant holds upper-case words
\* of the dictionary, none of them twice, and the participant's score is the
\* sum of getWordScore(length) over that list; "cat" and "CAT" are credited
\* as CAT with 1 point when CAT is not in the list, and change nothing when
\* it is.
C20_CreditedOnce ==
    \A r \in rooms : \A p \in DOMAIN room[r].words :
        LET ws == room[r].words[p]
        IN /\ \A i, j \in 1..Len(ws) : ws[i] = ws[j] => i = j
           /\ \A i \in 1..Len(ws) : toUpperCase(ws[i]) = ws[i] /\ dictionarySearch(ws[i])
           /\ p \in DOMAIN room[r].scores /\ room[r].scores[p] = wordPoints(ws)
           /\ \A s \in LiveSockets :
                 currentUser[s] = p
                 => IF Includes(ws, Cat)
                    THEN \A word \in {<<"c", "a", "t">>, Cat} :
                            ~ENABLED (SubmitWord(s, r, word) /\ room' # room)
                    ELSE \A word \in {<<"c", "a", "t">>, Cat} :
                            ENABLED (/\ SubmitWord(s, r, word)
                                     /\ room'[r].words[p] = Append(ws, Cat)
                                     /\ room'[r].scores[p] = room[r].scores[p] + 1)

\* B was credited CAT and HOUSE, 1 and 2 points, after the countdown began
C20_Witness ==
    \E r \in rooms :
        /\ room[r].status = "playing" /\ timers[r].cur
        /\ "B" \in DOMAIN room[r].words
        /\ room[r].words["B"] = <<Cat, House>> /\ room[r].scores["B"] = 3

\* C21: a submitWord from a logged-in connection for an existing room whose
\* upper-cased word is shorter than 3, already credited to the sender in that
\* room or not in the dictionary is rejected: the handler ends normally and
\* the room is unchanged; any other submitWord adds getWordScore(length) to
\* the sender's score, records the word, and changes no other participant's
\* score or list.
C21_Rejects ==
    [][\A s \in LiveSockets, r \in rooms, word \in WordInputs :
          (currentUser[s] # NoUser /\ SubmitWord(s, r, word))
          => LET cu == currentUser[s]
                 up == toUpperCase(word)
                 rm == room[r]
                 bad == \/ Len(up) < 3
                        \/ Includes(Get(rm.words, cu, <<>>), up)
                        \/ up \notin allWords
             IN IF bad
                THEN room' = room /\ crashed' = crashed
                ELSE /\ crashed' = crashed
                     /\ cu \in DOMAIN rm.scores /\ cu \in DOMAIN rm.words
                     /\ room' = [room EXCEPT
                                    ![r].scores[cu] = @ + getWordScore(Len(up)),
                                    ![r].words[cu] = Append(@, up)]
      ]_vars

\* room r lists identity u among its players
ListedIn(u, r) == r \in rooms /\ u # NoUser /\ Includes(room[r].players, u)

\* C22: whenever the identity of a live connection is listed in a waiting
\* room, each of leaveWaitingRoom, logout and disconnect from that connection
\* takes the identity out of the room's players, scores and words, and
\* deletes the room when no participant remains.
C22_LeaveRemoves ==
    \A s \in LiveSockets, r \in rooms :
        (ListedIn(currentUser[s], r) /\ room[r].status = "waiting")
        => /\ ENABLED (/\ LeaveWaitingRoom(s, r)
                       /\ r \in rooms' => /\ ~Includes(room'[r].players, currentUser[s])
                                          /\ currentUser[s] \notin DOMAIN room'[r].scores
                                          /\ currentUser[s] \notin DOMAIN room'[r].words
                                          /\ room'[r].players # <<>>)
           /\ ENABLED (/\ Logout(s)
                       /\ r \in rooms' => /\ ~Includes(room'[r].players, currentUser[s])
                                          /\ currentUser[s] \notin DOMAIN room'[r].scores
                                          /\ currentUser[s] \notin DOMAIN room'[r].words
                                          /\ room'[r].players # <<>>)
           /\ ENABLED (/\ Disconnect(s)
                       /\ r \in rooms' => /\ ~Includes(room'[r].players, currentUser[s])
                                          /\ currentUser[s] \notin DOMAIN room'[r].scores
                                          /\ currentUser[s] \notin DOMAIN room'[r].words
                                          /\ room'[r].players # <<>>)

\* the identities room r lists
Roster(rm) == SeqToSet(rm.players)

\* C23: a step that takes participants out of a ranked waiting room and
\* leaves exactly one identity in it deletes the room from the registry, and
\* every live connection of that identity is in the matchmaking queue after
\* the step.
C23_LoneRequeued ==
    [][\A r \in rooms :
          (/\ room[r].isRankedWaiting /\ room[r].status = "waiting"
           /\ Cardinality(Roster(room[r])) >= 2
           /\ Cardinality(Roster(room'[r])) = 1)
          => /\ r \notin rooms'
             /\ \A s \in Sockets :
                   (live'[s] /\ currentUser'[s] \in Roster(room'[r]))
                   => Includes(matchmakingQueue', s)
      ]_vars

\* ------------------------------------------------ the host of a room
\* s1, s2 and s3 are logged in as A, B and C; no room yet
InitHost ==
    LoggedIn({"s1", "s2", "s3"}, [u \in Humans |-> InitLp],
             [login |-> [s \in Sockets |-> {}], maxRooms |-> SoloRooms, pw |-> {TRUE},
              inflight |-> MaxInflight, finds |-> MaxFinds])

NextHost ==
    \/ \E s \in LiveSockets : CreateRoom(s, "null")
    \/ \E s \in LiveSockets, r \in RoomIds : JoinRoom(s, r, "null")
    \/ \E s \in LiveSockets, r \in RoomIds : LeaveWaitingRoom(s, r)
    \/ \E s \in LiveSockets, r \in RoomIds : StartCustomGame(s, r)
    \/ \E s \in LiveSockets : Logout(s)
    \/ \E s \in LiveSockets : Disconnect(s)

SpecHost == InitHost /\ [][NextHost]_vars

\* the participants of rm other than u, in join order
Others(rm, u) == LET other(p) == p # u IN SelectSeq(rm.players, other)

\* C24: the host of every custom room of the registry is one of its
\* participants; and whenever the host's connection can leave a waiting
\* custom room that lists somebody else, the leave makes the earliest-joined
\* other participant the host.
C24_HostListed ==
    \A r \in rooms :
        room[r].isCustom
        => /\ Includes(room[r].players, room[r].host)
           /\ \A s \in LiveSockets :
                 (/\ currentUser[s] = room[r].host /\ room[r].status = "waiting"
                  /\ Others(room[r], room[r].host) # <<>>)
                 => ENABLED (/\ LeaveWaitingRoom(s, r)
                             /\ r \in rooms'
                             /\ room'[r].players = Others(room[r], room[r].host)
                             /\ room'[r].host = Head(Others(room[r], room[r].host)))

\* A created the room, B and then C joined, A left: B is the host
C24_Witness ==
    \E r \in rooms :
        /\ room[r].isCustom /\ room[r].status = "waiting"
        /\ room[r].players = <<"B", "C">> /\ room[r].host = "B"

\* ------------------------------------- a started room is settled
\* SpecStart with the scheduling of the event loop: a timeout that is due
\* fires, an interval that is running ticks, and every select and update of
\* handleGameOver returns
Fairness ==
    /\ WF_vars(\E r \in RoomIds : StartTimeout(r))
    /\ \A k \in {"cur", "old"} : WF_vars(\E r \in RoomIds : Tick(r, k))
    /\ WF_vars(\E h \in DOMAIN procs : GameOverRead(h))
    /\ WF_vars(\E h \in DOMAIN procs : GameOverWrite(h))
    /\ WF_vars(\E h \in DOMAIN procs : GameOverResume(h))

SpecLive == InitStart /\ [][NextStart]_vars /\ Fairness

\* a room that beginGameSequence has started is eventually removed by the
\* step of handleGameOver that emits gameOver
C25_Eventually ==
    \A r \in RoomIds :
        (r \in rooms /\ room[r].status = "playing") ~> (r \notin rooms /\ gameOvers[r] >= 1)

\* the step that emits gameOver removes the room, and a removed id is not
\* registered again
C25_Removed ==
    [][\A r \in RoomIds :
          /\ gameOvers'[r] > gameOvers[r] => r \notin rooms'
          /\ gameOvers[r] > 0 => r \notin rooms']_vars

\* the activations of handleGameOver that are suspended at an await
Settlements == {h \in DOMAIN procs : h.op = "gameOver"}

\* C25: every started room is eventually settled and removed from the
\* registry (timer ticks keep firing, every persistence call returns); from
\* the step that emits gameOver on the room is not in the registry, and no
\* later event reads or changes it: no activation of handleGameOver is left
\* that holds the removed room.
C25_SettledAndGone ==
    /\ C25_Eventually
    /\ C25_Removed
    /\ [](\A h \in Settlements : h.r \in rooms)

\* ------------------------------------------------------ the countdown
\* C26: the countdown of a room starts at 120, changes only by decreasing
\* by exactly 1 per timer tick, and is within 0..120 in every reachable
\* state: after the tick that brings it to 0 no further tick of the room
\* occurs.
C26_Countdown ==
    /\ [](\A r \in rooms : room[r].time \in 0 .. StartTime)
    /\ [][\A r \in rooms' :
             IF r \in rooms
             THEN \/ room'[r].time = room[r].time
                  \/ room'[r].time = room[r].time - 1 /\ room[r].time > 0
             ELSE room'[r].time = StartTime]_vars

\* ------------------------------------------------------ an AI match
\* s1 is logged in as A; no room yet
InitAI ==
    LoggedIn({"s1"}, [u \in Humans |-> InitLp],
             [login |-> [s \in Sockets |-> {}], maxRooms |-> SoloRooms, pw |-> {TRUE},
              inflight |-> MaxInflight, finds |-> MaxFinds])

NextAI ==
    \/ \E s \in LiveSockets : StartAIMatch(s)
    \/ \E r \in RoomIds : StartTimeout(r)
    \/ \E r \in RoomIds, ai \in SeqToSet(aiRoster) : AITick(r, ai, Cat)
    \/ \E r \in RoomIds : Tick(r, "cur")
    \/ \E h \in DOMAIN procs : GameOverRead(h)
    \/ \E h \in DOMAIN procs : GameOverWrite(h)
    \/ \E h \in DOMAIN procs : GameOverResume(h)
    \/ \E s \in LiveSockets, r \in RoomIds : QuitMatch(s, r)
    \/ \E h \in DOMAIN procs : QuitRead(h)
    \/ \E h \in DOMAIN procs : QuitIssue(h)
    \/ \E h \in DOMAIN procs : QuitWrite(h)
    \/ \E s \in LiveSockets : Disconnect(s)

SpecAI == InitAI /\ [][NextAI]_vars

\* the synthetic participants of room r
Synthetic(r) == {p \in DOMAIN room[r].scores : startsWithAI(p)}

\* C27: no synthetic participant is credited a word after handleGameOver
\* has started for its room or after the room was deleted: from the start of
\* handleGameOver on no AI interval of the room is running, and a step
\* changes the score or the words of a synthetic participant only while the
\* room is in the registry and unsettled.
C27_NoLateCredit ==
    /\ [](\A r \in DOMAIN room :
             (room[r].isAI /\ (settleRuns[r] > 0 \/ r \notin rooms)) => aiTimers[r] = {})
    /\ [][\A r \in DOMAIN room : \A p \in Synthetic(r) :
             (room'[r].scores[p] # room[r].scores[p] \/ room'[r].words[p] # room[r].words[p])
             => r \in rooms /\ settleRuns[r] = 0]_vars

\* an AI room was settled and deleted after two of its synthetic
\* participants had been credited and two had not
C27_Witness ==
    \E r \in DOMAIN room :
        /\ room[r].isAI /\ r \notin rooms /\ gameOvers[r] = 1
        /\ room[r].words["AI_Alpha"] = <<Cat>> /\ room[r].scores["AI_Beta"] = 1
        /\ room[r].scores["AI_Gamma"] = 0 /\ room[r].words["AI_Delta"] = <<>>
        /\ aiTimers[r] = {}

\* ------------------------------------------------- the dictionary trie
\* the longest line of words.txt and the number of lines read
MaxLen == 2
MaxLines == 2

\* new TrieNode() (server.js 20-22); children maps a character to the index
\* of the child in the sequence of nodes that is the trie
TrieNode == [children |-> <<>>, isEndOfWord |-> FALSE]
\* new Trie() (server.js 24): the root is node 1
NewTrie == <<TrieNode>>

\* Trie.insert (server.js 25-32), from node current on
RECURSIVE insertFrom(_, _, _)
insertFrom(t, current, word) ==
    IF word = <<>> THEN [t EXCEPT ![current].isEndOfWord = TRUE]
    ELSE LET char == Head(word)
         IN IF char \in DOMAIN t[current].children
            THEN insertFrom(t, t[current].children[char], Tail(word))
            ELSE insertFrom(Append([t EXCEPT ![current].children = Put(@, char, Len(t) + 1)],
                                   TrieNode),
                            Len(t) + 1, Tail(word))
insert(t, word) == insertFrom(t, 1, word)

\* a walk that ends on a node is taken for a word
endOfWalkMut(node) == TRUE
\* return current.isEndOfWord (server.js 39)
endOfWalk(node) == node.isEndOfWord

\* Trie.search (server.js 33-40), from node current on
RECURSIVE searchFrom(_, _, _)
searchFrom(t, current, word) ==
    IF word = <<>> THEN endOfWalk(t[current])
    ELSE IF Head(word) \notin DOMAIN t[current].children THEN FALSE
    ELSE searchFrom(t, t[current].children[Head(word)], Tail(word))
search(t, word) == searchFrom(t, 1, word)

\* String.prototype.trim for lines of letters and blanks
RECURSIVE trimStart(_)
trimStart(w) == IF w # <<>> /\ Head(w) = " " THEN trimStart(Tail(w)) ELSE w
RECURSIVE trimEnd(_)
trimEnd(w) == IF w # <<>> /\ w[Len(w)] = " " THEN trimEnd(SubSeq(w, 1, Len(w) - 1)) ELSE w
trim(w) == trimEnd(trimStart(w))

\* the strings of at most n of the letters A and T
Strings(n) == UNION {[1..k -> {"A", "T"}] : k \in 0..n}
\* the lines words.txt may hold: upper-case strings, the empty line, a
\* lower-case word, a word between blanks and a blank line
Lines == Strings(MaxLen) \cup {<<"a", "t">>, <<" ", "A", " ">>, <<" ">>}
\* the strings searched for
Queries == Strings(MaxLen) \cup {<<"a", "t">>, <<" ", "A", " ">>}

\* the server before words.txt is read (server.js 43-44): an empty trie and
\* an empty allWords; no connection, no room
InitTrie ==
    InitWith({}, {}, [u \in Humans |-> InitLp],
             [dictionaryTrie |-> NewTrie, allWords |-> <<>>, read |-> 0,
              searched |-> FALSE, word |-> <<>>, found |-> FALSE])

\* one pass of words.forEach (server.js 51-57)
LoadLine(w) ==
    /\ env.read < MaxLines
    /\ LET cleanWord == toUpperCase(trim(w))
       IN env' = IF cleanWord # <<>>
                 THEN [env EXCEPT !.dictionaryTrie = insert(@, cleanWord),
                                  !.allWords = Append(@, cleanWord),
                                  !.read = @ + 1, !.searched = FALSE]
                 ELSE [env EXCEPT !.read = @ + 1, !.searched = FALSE]
    /\ UNCHANGED <<live, currentUser, sockUsername, sockLp, onlineUsers, accounts, lp,
                   rooms, room, nextRoom, matchmakingQueue, pendingStart, timers, aiTimers,
                   procs, crashed, settleRuns, gameOvers, lpWrites, quits, starts, finds>>

\* dictionaryTrie.search(word) (server.js 33-40, called at 520)
Search(word) ==
    /\ env' = [env EXCEPT !.searched = TRUE, !.word = word,
                          !.found = search(env.dictionaryTrie, word)]
    /\ UNCHANGED <<live, currentUser, sockUsername, sockLp, onlineUsers, accounts, lp,
                   rooms, room, nextRoom, matchmakingQueue, pendingStart, timers, aiTimers,
                   procs, crashed, settleRuns, gameOvers, lpWrites, quits, starts, finds>>

NextTrie ==
    \/ \E w \in Lines : LoadLine(w)
    \/ \E word \in Queries : Search(word)

SpecTrie == InitTrie /\ [][NextTrie]_vars

\* word is a proper prefix of a word that was inserted
ProperPrefix(word) ==
    \E i \in 1..Len(env.allWords) :
        /\ Len(word) < Len(env.allWords[i])
        /\ word = SubSeq(env.allWords[i], 1, Len(word))

\* C28: search returns true exactly for the strings that were inserted as
\* whole words: false for a proper prefix of an inserted word that was not
\* itself inserted, false for the empty string, and false for every string
\* when no word was loaded.
C28_SearchExact ==
    env.searched =>
        /\ env.found <=> Includes(env.allWords, env.word)
        /\ (ProperPrefix(env.word) /\ ~Includes(env.allWords, env.word)) => ~env.found
        /\ env.word = <<>> => ~env.found
        /\ env.allWords = <<>> => ~env.found

\* AT and TA were inserted; the search for the prefix A of AT returned false
C28_Witness ==
    /\ env.searched /\ env.word = <<"A">> /\ ~env.found
    /\ env.allWords = <<<<"A", "T">>, <<"T", "A">>>>
    /\ Len(env.dictionaryTrie) = 5

\* ------------------------------------------------- the score of a word
\* the longest word submitted and the number of submissions
MaxWordLength == 10
MaxCalls == 2

\* no word was submitted yet, the participant has 0 points
InitScore ==
    InitWith({}, {}, [u \in Humans |-> InitLp],
             [calls |-> 0, wordLength |-> 0, points |-> 0, accepted |-> FALSE,
              before |-> 0, score |-> 0])

\* getWordScore for a word of wordLength letters, and the credit of submitWord
\* (server.js 517-523): a word shorter than 3, used before or not in the
\* dictionary (fresh = FALSE) is not credited
Score(wordLength, fresh) ==
    /\ env.calls < MaxCalls
    /\ LET points == getWordScore(wordLength)
           accepted == ~(wordLength < 3) /\ fresh
       IN env' = [calls |-> env.calls + 1, wordLength |-> wordLength, points |-> points,
                  accepted |-> accepted, before |-> env.score,
                  score |-> IF accepted THEN env.score + points ELSE env.score]
    /\ UNCHANGED <<live, currentUser, sockUsername, sockLp, onlineUsers, accounts, lp,
                   rooms, room, nextRoom, matchmakingQueue, pendingStart, timers, aiTimers,
                   procs, crashed, settleRuns, gameOvers, lpWrites, quits, starts, finds>>

NextScore == \E wordLength \in 0..MaxWordLength, fresh \in BOOLEAN : Score(wordLength, fresh)

SpecScore == InitScore /\ [][NextScore]_vars

\* C29: getWordScore(L) is 0 for L < 3, 1 for L = 3 and L = 4, 2 for L = 5,
\* 3 for L = 6, 5 for L = 7 and 11 for every L >= 8; an accepted submission
\* adds one of 1, 2, 3, 5, 11 points, a rejected one adds nothing.
C29_ScoreTable ==
    env.calls > 0 =>
        /\ env.wordLength < 3 => env.points = 0
        /\ env.wordLength \in {3, 4} => env.points = 1
        /\ env.wordLength = 5 => env.points = 2
        /\ env.wordLength = 6 => env.points = 3
        /\ env.wordLength = 7 => env.points = 5
        /\ env.wordLength >= 8 => env.points = 11
        /\ IF env.accepted THEN env.score - env.before \in {1, 2, 3, 5, 11}
           ELSE env.score = env.before

\* a word of 7 letters and then one of 10 letters were accepted: 5 + 11
C29_Witness ==
    /\ env.calls = 2 /\ env.wordLength = 10 /\ env.points = 11 /\ env.accepted
    /\ env.before = 5 /\ env.score = 16

\* --------------------------------------------------- the tier of an LP
\* the largest LP ranked
MaxLp == 1001
\* the last LP of every tier but the top one (server.js 71-81)
Thresholds == {50, 100, 200, 300, 400, 500, 600, 700, 800, 900, 999}
TopTier == Cardinality(Thresholds)
\* the LP next to a threshold, the least and the largest
LpInputs == {0, MaxLp} \cup UNION {{t - 1, t, t + 1} : t \in Thresholds}

\* getRankData was called for 0 LP
InitRank ==
    InitWith({}, {}, [u \in Humans |-> InitLp],
             [lp1 |-> 0, tier1 |-> getRankData(0), lp2 |-> 0, tier2 |-> getRankData(0)])

\* getRankData(x) after the call for env.lp2
Rank(x) ==
    /\ env' = [lp1 |-> env.lp2, tier1 |-> env.tier2, lp2 |-> x, tier2 |-> getRankData(x)]
    /\ UNCHANGED <<live, currentUser, sockUsername, sockLp, onlineUsers, accounts, lp,
                   rooms, room, nextRoom, matchmakingQueue, pendingStart, timers, aiTimers,
                   procs, crashed, settleRuns, gameOvers, lpWrites, quits, starts, finds>>

\* the LP rises by one, or moves to any of LpInputs
NextRank ==
    \/ env.lp2 < MaxLp /\ Rank(env.lp2 + 1)
    \/ \E x \in LpInputs : Rank(x)

SpecRank == InitRank /\ [][NextRank]_vars

\* C30: getRankData is total and monotonic on LP >= 0: of two LP the larger
\* one has the tier that is not below; the tier changes exactly after 50,
\* 100, 200, 300, 400, 500, 600, 700, 800, 900 and 999, each threshold in the
\* lower tier; every LP of 1000 or more has the top tier.
C30_Tiers ==
    /\ env.tier1 \in 0..TopTier /\ env.tier2 \in 0..TopTier
    /\ env.lp1 <= env.lp2 => env.tier1 <= env.tier2
    /\ env.lp2 = env.lp1 + 1 =>
          env.tier2 = IF env.lp1 \in Thresholds THEN env.tier1 + 1 ELSE env.tier1
    /\ env.lp2 >= 1000 => env.tier2 = TopTier
    /\ env.lp2 < 1000 => env.tier2 < TopTier
    /\ env.lp2 = 0 => env.tier2 = 0

\* 999 has the eleventh tier and 1000, the next LP, the top tier
C30_Witness ==
    /\ env.lp1 = 999 /\ env.tier1 = TopTier - 1
    /\ env.lp2 = 1000 /\ env.tier2 = TopTier

\* ------------------------------------- what the other participant sees
\* the submissions of one round
MaxSubmits == 3

\* the emits of an accepted submitWord (server.js 525-527): wordResult and
\* myScoreUpdate go to the sender's socket, spectatorUpdate to the room
submitWordEmits(cu, cleanWord, points, score) ==
    << [to |-> cu, name |-> "wordResult",
        data |-> [success |-> TRUE, word |-> cleanWord, points |-> points]],
       [to |-> cu, name |-> "myScoreUpdate", data |-> score],
       [to |-> "room", name |-> "spectatorUpdate",
        data |-> [player |-> cu, points |-> points]] >>
\* the emit of a rejected submitWord (server.js 518)
rejectEmits(cu) == << [to |-> cu, name |-> "wordResult", data |-> [success |-> FALSE]] >>

\* the events of emits that reach participant p: those for p's socket and
\* those for the room
deliveredTo(emits, p) ==
    LET mine(e) == e.to = p \/ e.to = "room" IN SelectSeq(emits, mine)

\* submitWord (server.js 511-528) of participant cu in the playing room rn:
\* the room afterwards, and what every participant has received
submitWord(rn, cu, word) ==
    LET cleanWord == toUpperCase(word)
        points == getWordScore(Len(cleanWord))
        emits == IF Len(cleanWord) < 3 \/ wordRejected(rn.words[cu], cleanWord)
                 THEN rejectEmits(cu)
                 ELSE submitWordEmits(cu, cleanWord, points, rn.scores[cu] + points)
        seen == [p \in DOMAIN rn.seen |-> rn.seen[p] \o deliveredTo(emits, p)]
    IN IF Len(cleanWord) < 3 \/ wordRejected(rn.words[cu], cleanWord)
       THEN [rn EXCEPT !.seen = seen]
       ELSE [rn EXCEPT !.scores[cu] = @ + points, !.words[cu] = Append(@, cleanWord),
                       !.seen = seen]

\* a word submitWord accepts from cu in rn
valid(rn, cu, word) ==
    ~(Len(toUpperCase(word)) < 3) /\ ~wordRejected(rn.words[cu], toUpperCase(word))

\* the room of A and B after gameStart, nothing submitted yet
Playing ==
    [scores |-> [p \in {"A", "B"} |-> 0], words |-> [p \in {"A", "B"} |-> <<>>],
     seen |-> [p \in {"A", "B"} |-> <<>>]]

\* two runs of the same round
InitHidden ==
    InitWith({}, {}, [u \in Humans |-> InitLp],
             [run1 |-> Playing, run2 |-> Playing, submits |-> 0])

\* A submits a valid word in each run, not necessarily the same
SubmitEither(w1, w2) ==
    /\ env.submits < MaxSubmits
    /\ valid(env.run1, "A", w1) /\ valid(env.run2, "A", w2)
    /\ env' = [run1 |-> submitWord(env.run1, "A", w1),
               run2 |-> submitWord(env.run2, "A", w2),
               submits |-> env.submits + 1]
    /\ UNCHANGED <<live, currentUser, sockUsername, sockLp, onlineUsers, accounts, lp,
                   rooms, room, nextRoom, matchmakingQueue, pendingStart, timers, aiTimers,
                   procs, crashed, settleRuns, gameOvers, lpWrites, quits, starts, finds>>

\* B submits the same word in both runs
SubmitSame(word) ==
    /\ env.submits < MaxSubmits
    /\ env' = [run1 |-> submitWord(env.run1, "B", word),
               run2 |-> submitWord(env.run2, "B", word),
               submits |-> env.submits + 1]
    /\ UNCHANGED <<live, currentUser, sockUsername, sockLp, onlineUsers, accounts, lp,
                   rooms, room, nextRoom, matchmakingQueue, pendingStart, timers, aiTimers,
                   procs, crashed, settleRuns, gameOvers, lpWrites, quits, starts, finds>>

NextHidden ==
    \/ \E w1, w2 \in WordInputs : SubmitEither(w1, w2)
    \/ \E word \in WordInputs : SubmitSame(word)

SpecHidden == InitHidden /\ [][NextHidden]_vars

\* C31: before gameOver no event delivered to a participant other than the
\* submitter depends on the points of the submitter's accepted word: two
\* runs that differ only in the valid words A submitted have delivered the
\* same events to B.
C31_ScoresHidden == env.run1.seen["B"] = env.run2.seen["B"]

\* what B has received depends on nothing but the points of A's words
PointsOnly ==
    LET pts(rn) == [i \in 1..Len(rn.words["A"]) |-> getWordScore(Len(rn.words["A"][i]))]
    IN pts(env.run1) = pts(env.run2) => env.run1.seen["B"] = env.run2.seen["B"]

\* --------------------------------------- reconnecting during a round
\* the payload of rejoinGame (server.js 210-213), without the board
rejoinGame(rm, cu) ==
    [players |-> rm.players, time |-> rm.time,
     myScore |-> Get(rm.scores, cu, NoName), myWords |-> Get(rm.words, cu, NoName)]

\* the custom room of A and B in its last second, A ahead; s1 and s2 are the
\* connections of A and B, s3 and s4 are open and not authenticated
InitRejoin ==
    LET rm == [newRoom(<<"A", "B">>, TRUE, FALSE, FALSE, "A", "null", NoLp)
                  EXCEPT !.scores = [p \in {"A", "B"} |-> IF p = "A" THEN 10 ELSE 9],
                         !.words = [p \in {"A", "B"} |-> wordsFor(IF p = "A" THEN 10 ELSE 9)],
                         !.time = 1, !.status = "playing"]
    IN /\ live = [s \in Sockets |-> s # "s5"]
       /\ currentUser = [s \in Sockets |-> IF s \in {"s1", "s2"} THEN userOf(s) ELSE NoUser]
       /\ sockUsername = [s \in Sockets |-> IF s \in {"s1", "s2"} THEN userOf(s) ELSE NoName]
       /\ sockLp = [s \in Sockets |-> NoLp]
       /\ onlineUsers = [u \in Humans |-> IF u \in {"A", "B"} THEN sockOf(u) ELSE NoSock]
       /\ accounts = Humans
       /\ lp = [u \in Humans |-> InitLp]
       /\ rooms = {1}
       /\ room = Put(<<>>, 1, rm)
       /\ nextRoom = 2
       /\ matchmakingQueue = <<>>
       /\ pendingStart = [r \in RoomIds |-> 0]
       /\ timers = [r \in RoomIds |-> IF r = 1 THEN [NoTimer EXCEPT !.cur = TRUE]
                                      ELSE NoTimer]
       /\ aiTimers = [r \in RoomIds |-> {}]
       /\ procs = <<>>
       /\ crashed = FALSE
       /\ settleRuns = [r \in RoomIds |-> 0]
       /\ gameOvers = [r \in RoomIds |-> 0]
       /\ lpWrites = [r \in RoomIds |-> [u \in Humans |-> 0]]
       /\ quits = [r \in RoomIds |-> [u \in Humans |-> 0]]
       /\ starts = [r \in RoomIds |-> IF r = 1 THEN 1 ELSE 0]
       /\ finds = [s \in Sockets |-> 0]
       /\ env = [login |-> [s \in Sockets |-> IF s \in {"s3", "s4"} THEN {"A"} ELSE {}],
                 maxRooms |-> SoloRooms, pw |-> {TRUE, FALSE},
                 inflight |-> MaxInflight, finds |-> MaxFinds]

NextRejoin ==
    \/ \E s \in LiveSockets : Disconnect(s)
    \/ \E s \in LiveSockets, u \in Humans, ok \in env.pw :
          u \in env.login[s] /\ ReconnectBegin(s, u, ok)
    \/ \E h \in DOMAIN procs : ReconnectResume(h)
    \/ Tick(1, "cur")
    \/ \E h \in DOMAIN procs : GameOverRead(h)
    \/ \E h \in DOMAIN procs : GameOverWrite(h)
    \/ \E h \in DOMAIN procs : GameOverResume(h)

SpecRejoin == InitRejoin /\ [][NextRejoin]_vars

\* the playing rooms that list u
PlayingRoomsOf(u) ==
    {r \in rooms : room[r].status = "playing" /\ Includes(room[r].players, u)}

\* a reconnectUser with valid credentials of a participant of a playing room
\* sets the presence entry and the identity of the connection, replies with
\* the room's time and the participant's score and words, and leaves the
\* room as it is
RejoinFrame ==
    [][\A h \in DOMAIN procs :
          (ReconnectResume(h) /\ h.ok /\ h.u \in accounts /\ PlayingRoomsOf(h.u) # {})
          => /\ onlineUsers'[h.u] = h.s /\ currentUser'[h.s] = h.u
             /\ \A r \in PlayingRoomsOf(h.u) :
                   /\ r \in rooms' /\ room'[r] = room[r]
                   /\ rejoinGame(room'[r], h.u)
                         = [players |-> room[r].players, time |-> room[r].time,
                            myScore |-> room[r].scores[h.u],
                            myWords |-> room[r].words[h.u]]]_vars

\* when handleGameOver starts for a room, every participant with a live
\* connection authenticated as that participant is counted as connected
ConnectedAtSettlement ==
    [][\A r \in rooms :
          settleRuns'[r] > settleRuns[r]
          => \A s \in LiveSockets :
                Includes(room[r].players, currentUser[s])
                => \A h \in DOMAIN procs' :
                      (h.op = "gameOver" /\ h.r = r /\ h \notin DOMAIN procs)
                      => currentUser[s] \in h.on]_vars

\* C32: a reconnectUser with valid credentials from a participant of a
\* playing room re-establishes the presence entry and returns the room's
\* time and the participant's own score and words without changing roster,
\* scores or words; a participant who reconnected before the countdown
\* reaches 0 is treated as connected at settlement.
C32_Rejoin == RejoinFrame /\ ConnectedAtSettlement

\* --------------------------------------------- a ranked room, all ready
\* C33: no ranked room rests in the waiting state with at least 2
\* participants who have all signalled ready: the step that makes every
\* remaining participant ready, a ready signal or the leave of the last
\* participant who was not ready, starts the room.
C33_NoReadyRest ==
    \A r \in rooms :
        (room[r].isRankedWaiting /\ room[r].status = "waiting" /\ Len(room[r].players) >= 2)
        => ~allReady(room[r])

\* ------------------------------------------ one entry per participant
\* C34: the participant list of a room never contains the same identity
\* twice, also when a participant sends joinRoom for a room it is already
\* in or findMatch while it is in a ranked waiting room.
C34_NoDuplicateEntry ==
    \A r \in rooms : Cardinality(Roster(room[r])) = Len(room[r].players)

\* ------------------------------------ a request that outlives its sender
\* the places of the identity of connection s in the participant lists
Places(rs, rm, s) ==
    UNION {{<<r, i>> : i \in {j \in 1..Len(rm[r].players) : rm[r].players[j] = currentUser[s]}} :
              r \in rs}

\* C35: once the disconnect of a connection has been processed (no findMatch
\* can follow it), the connection is not in the matchmaking queue and is not
\* added to any room, also when one of its findMatch requests was suspended
\* on its lookups when the disconnect arrived; the same is claimed for
\* cancelMatch until the next findMatch.
C35_GoneStaysOut ==
    /\ [](\A s \in Sockets : ~live[s] => ~Includes(matchmakingQueue, s))
    /\ [][\A s \in Sockets :
             (~live[s] /\ currentUser[s] # NoUser)
             => Places(rooms', room', s) \subseteq Places(rooms, room, s)]_vars

\* ------------------------------------------- the last second of a round
\* room 1, the custom room of A and B, is in its last second with A ahead;
\* room 2 is the custom room C has created and not started; s1, s2 and s3
\* are the connections of A, B and C. A and B send: words for their own
\* room, and quitMatch for either room
InitRound ==
    LET rm1 == [newRoom(<<"A", "B">>, TRUE, FALSE, FALSE, "A", "null", NoLp)
                   EXCEPT !.scores = [p \in {"A", "B"} |-> IF p = "A" THEN 10 ELSE 9],
                          !.words = [p \in {"A", "B"} |-> wordsFor(IF p = "A" THEN 10 ELSE 9)],
                          !.time = 1, !.status = "playing"]
        rm2 == newRoom(<<"C">>, TRUE, FALSE, FALSE, "C", "null", NoLp)
        in == {"s1", "s2", "s3"}
    IN /\ live = [s \in Sockets |-> s \in in]
       /\ currentUser = [s \in Sockets |-> IF s \in in THEN userOf(s) ELSE NoUser]
       /\ sockUsername = [s \in Sockets |-> IF s \in in THEN userOf(s) ELSE NoName]
       /\ sockLp = [s \in Sockets |-> NoLp]
       /\ onlineUsers = [u \in Humans |-> IF u \in {"A", "B", "C"} THEN sockOf(u) ELSE NoSock]
       /\ accounts = Humans
       /\ lp = [u \in Humans |-> InitLp]
       /\ rooms = {1, 2}
       /\ room = Put(Put(<<>>, 1, rm1), 2, rm2)
       /\ nextRoom = 3
       /\ matchmakingQueue = <<>>
       /\ pendingStart = [r \in RoomIds |-> 0]
       /\ timers = [r \in RoomIds |-> IF r = 1 THEN [NoTimer EXCEPT !.cur = TRUE]
                                      ELSE NoTimer]
       /\ aiTimers = [r \in RoomIds |-> {}]
       /\ procs = <<>>
       /\ crashed = FALSE
       /\ settleRuns = [r \in RoomIds |-> 0]
       /\ gameOvers = [r \in RoomIds |-> 0]
       /\ lpWrites = [r \in RoomIds |-> [u \in Humans |-> 0]]
       /\ quits = [r \in RoomIds |-> [u \in Humans |-> 0]]
       /\ starts = [r \in RoomIds |-> IF r = 1 THEN 1 ELSE 0]
       /\ finds = [s \in Sockets |-> 0]
       /\ env = [login |-> [s \in Sockets |-> {}], maxRooms |-> MaxRooms, pw |-> {TRUE},
                 inflight |-> QueueInflight, finds |-> MaxFinds]

NextRound ==
    \/ \E s \in {"s1", "s2"}, word \in {<<"c", "a", "t">>, <<"A", "T">>} :
          SubmitWord(s, 1, word)
    \/ \E s \in {"s1", "s2"}, r \in RoomIds : QuitMatch(s, r)
    \/ \E h \in DOMAIN procs : QuitRead(h)
    \/ \E h \in DOMAIN procs : QuitIssue(h)
    \/ \E h \in DOMAIN procs : QuitWrite(h)
    \/ Tick(1, "cur")
    \/ \E h \in DOMAIN procs : GameOverRead(h)
    \/ \E h \in DOMAIN procs : GameOverWrite(h)
    \/ \E h \in DOMAIN procs : GameOverResume(h)

SpecRound == InitRound /\ [][NextRound]_vars

\* C36: every score of every room is a non-negative integer or the forfeit
\* sentinel -9999 in every reachable state, and a score that quitMatch has
\* set to the sentinel stays the sentinel until the room is deleted,
\* whatever the participant sends afterwards.
C36_ScoreOrSentinel ==
    /\ [](\A r \in rooms : \A p \in DOMAIN room[r].scores :
             room[r].scores[p] \in Nat \/ room[r].scores[p] = Forfeit)
    /\ [][\A r \in rooms \cap rooms' : \A p \in DOMAIN room[r].scores :
             room[r].scores[p] = Forfeit
             => p \in DOMAIN room'[r].scores /\ room'[r].scores[p] = Forfeit]_vars

\* the score reported for a participant is the score ranked when settlement
\* began (0 for a forfeit)
ReportedIsRanked ==
    \A h \in DOMAIN procs : h.op = "gameOver" =>
       \A p \in DOMAIN h.res :
          h.res[p].score = IF h.sc[p] = Forfeit THEN 0 ELSE h.sc[p]

\* C37: once a room's countdown has reached 0, no participant's score or
\* word list in that room changes any more, and the score reported for a
\* participant in gameOver is the score the LP deltas were assigned from,
\* also when submitWord or quitMatch arrive while settlement is suspended.
C37_FrozenAtZero ==
    /\ [][\A r \in rooms \cap rooms' :
             settleRuns[r] > 0 => /\ room'[r].scores = room[r].scores
                                  /\ room'[r].words = room[r].words]_vars
    /\ []ReportedIsRanked

\* the steps that emit gameOver for room r: the settlement h finishes its
\* last pass and leaves the bag
Emits(h, r) ==
    /\ h \in DOMAIN procs /\ h.op = "gameOver" /\ h.r = r
    /\ gameOvers'[r] = gameOvers[r] + 1
    /\ procs' = BagDel(procs, h)

\* the lpChange and newLp of every human in the results emitted from h
Reported(h) ==
    LET p == Head(h.xs)
    IN Put(h.res, p, [lpChange |-> h.n,
                      newLp |-> IF h.pc = "read" THEN newLp(dbLp(p), h.n) ELSE h.v])

\* C38: for every human participant, the newLp reported in gameOver is the
\* participant's persisted LP at the moment gameOver is emitted, and the
\* reported lpChange is the total LP change the round caused, forfeits
\* included.
C38_ReportedLp ==
    [][\A r \in rooms : \A h \in DOMAIN procs : Emits(h, r) =>
          \A p \in DOMAIN Reported(h) :
             /\ Reported(h)[p].newLp = lp'[p]
             /\ Reported(h)[p].lpChange = lp'[p] - InitLp]_vars

\* the same for a round in which nothing but one finished quitMatch of a
\* participant and the settlement touched the LP
C38_ForfeitOnly ==
    [][\A r \in rooms : \A h \in DOMAIN procs :
          (/\ Emits(h, r)
           /\ \A q \in DOMAIN procs : q.op # "quit"
           /\ \A u \in Humans : quits[2][u] = 0 /\ quits[1][u] <= 1
           /\ \A u \in DOMAIN room[r].scores : room[r].scores[u] = Forfeit \/ quits[1][u] = 0
           /\ room[r].scores["B"] = 9)
          => \A p \in DOMAIN Reported(h) : Reported(h)[p].newLp = lp'[p]]_vars

\* C39: for every connected, non-forfeited human participant of a settled
\* room, the LP stored once settlement has finished is max(0, LP stored when
\* settlement began + the participant's assigned delta): no update is lost
\* or overwritten when another handler for the same user reads and writes
\* that user's LP while the settlement is suspended.
C39_NoLostUpdate ==
    [][\A r \in rooms : \A h \in DOMAIN procs : Emits(h, r) =>
          \A p \in DOMAIN h.asg :
             (p \in h.on /\ p \in accounts /\ quits[r][p] = 0)
             => lp'[p] = newLp(h.lp0[p], h.asg[p])]_vars

\* the same against the serial outcome: when settlement finishes with no
\* quitMatch in flight, every charge of a finished quitMatch for room 2 and
\* the assigned delta are all in the stored LP
C39_Serial ==
    [][\A h \in DOMAIN procs :
          (Emits(h, 1) /\ \A q \in DOMAIN procs : q.op # "quit") =>
          \A p \in DOMAIN h.asg :
             (p \in h.on /\ p \in accounts /\ quits[1][p] = 0)
             => lp'[p] = newLp(InitLp - QuitPenalty * quits[2][p], h.asg[p])]_vars

\* the value settlement stored for a connected participant who did not quit
\* the room is still the stored LP when settlement finishes
C39_Kept ==
    [][\A h \in DOMAIN procs : Emits(h, 1) =>
          \A p \in DOMAIN h.res :
             (p \in h.on /\ p \in accounts /\ quits[1][p] = 0)
             => lp'[p] = h.res[p].newLp]_vars

\* C40: every entry of the online-presence map points to a live connection
\* that is currently authenticated as that identity; after a connection has
\* disconnected or logged out no entry refers to it, also when it
\* authenticated as more than one username during its life.
C40_PresenceLive ==
    \A u \in Humans : onlineUsers[u] # NoSock =>
       /\ live[onlineUsers[u]]
       /\ currentUser[onlineUsers[u]] = u

\* the entries of live connections alone: each is the identity the
\* connection is authenticated as now
C40_OwnIdentity ==
    \A u \in Humans : (onlineUsers[u] # NoSock /\ live[onlineUsers[u]])
                         => currentUser[onlineUsers[u]] = u

====
